---- MODULE Spec2Model ----
(***************************************************************************)
(* A model of jellyfin-tmdb-auto-collections: the TMDb connector with its  *)
(* JSON cache, the collection resolver (online and offline), the           *)
(* missing-movie reconciler, the Jellyfin grouping reconciliation and the   *)
(* wiring of main.                                                          *)
(*                                                                         *)
(* Python values are modelled as follows.  A str is a sequence of          *)
(* one-character strings; None, where a str is expected, is NoneStr.       *)
(* A dict that keeps insertion order is a sequence of records.  An id is   *)
(* an integer; an absent id is 0 where the code tests it by truthiness.    *)
(***************************************************************************)
EXTENDS Integers, Sequences, FiniteSets, TLC

(***************************************************************************)
(* Bounds of the model.                                                    *)
(***************************************************************************)
MaxDateLen == 4
MaxMovies == 3
MaxMembers == 3
MaxWorkers == 2

(***************************************************************************)
(* Program constants.                                                      *)
(***************************************************************************)
MIN_MOVIES == 2
CURRENT_YEAR == 2024
attempts == 3
\* Time is counted in units of a quarter of a second, and from the present:
\* time.time() is 0, a time in the past is negative.
CALL_INTERVAL_SECONDS == 1
ErrorSleep == 4
RetryAfterDefault == 12

(***************************************************************************)
(* Strings.                                                                *)
(***************************************************************************)
NoneStr == <<"None">>

Digits == <<"0", "1", "2", "3", "4", "5", "6", "7", "8", "9">>

IsDigit(c) == \E i \in 1..10 : Digits[i] = c

DigitVal(c) == (CHOOSE i \in 1..10 : Digits[i] = c) - 1

RECURSIVE DecVal(_)
DecVal(s) ==
    IF s = <<>> THEN 0
    ELSE DecVal(SubSeq(s, 1, Len(s) - 1)) * 10 + DigitVal(s[Len(s)])

\* Python's int(s) on a str of digits with an optional sign: ok is FALSE
\* where int raises ValueError.
PyInt(s) ==
    LET signed == Len(s) > 0 /\ s[1] \in {"-", "+"}
        body == IF signed THEN Tail(s) ELSE s
        good == Len(body) > 0 /\ \A i \in 1..Len(body) : IsDigit(body[i])
    IN  IF ~good THEN [ok |-> FALSE, val |-> 0]
        ELSE [ok |-> TRUE,
              val |-> IF signed /\ s[1] = "-" THEN 0 - DecVal(body) ELSE DecVal(body)]

\* Python's str(n) for n >= 0.
RECURSIVE Str(_)
Str(n) == IF n < 10 THEN <<Digits[n + 1]>> ELSE Str(n \div 10) \o <<Digits[(n % 10) + 1]>>

\* s[:k]
Prefix(s, k) == SubSeq(s, 1, IF Len(s) < k THEN Len(s) ELSE k)

RECURSIVE SeqsUpTo(_, _)
SeqsUpTo(S, n) ==
    IF n = 0 THEN {<<>>}
    ELSE LET shorter == SeqsUpTo(S, n - 1)
         IN  shorter \cup {Append(s, c) : s \in {t \in shorter : Len(t) = n - 1}, c \in S}

(***************************************************************************)
(* The remote metadata provider and the inputs of a run.                   *)
(***************************************************************************)
NoMeta == [none |-> TRUE]

NoCol == [id |-> 0, name |-> <<>>]

\* What TMDb answers for /movie/<id>.
Title(id, col, date, status) ==
    [id |-> id, title |-> <<"T">> \o Str(id), release_date |-> date, status |-> status,
     belongs_to_collection |-> col, poster_path |-> <<"/", "p">>]

\* What TMDb answers for /collection/<cid>; a part without an id has id 0.
Coll(cid, name, poster, ids) ==
    [id |-> cid, name |-> name, poster_path |-> poster,
     parts |-> [i \in 1..Len(ids) |->
                  [id |-> ids[i], title |-> <<"T">> \o Str(ids[i]), release_date |-> NoneStr]]]

NameA == <<"A">>
NameAB == <<"A", "B">>
SagaA == [id |-> 42, name |-> NameA]
SagaAB == [id |-> 43, name |-> NameAB]

TitleIds == {10, 11, 12, 13}
CollIds == {42, 43}

WorldA ==
    [title |-> [i \in TitleIds |->
                  Title(i, SagaA, IF i = 13 THEN <<"2", "0", "2", "0">> ELSE <<"2", "0", "0", "9">>,
                        "Released")],
     coll |-> [c \in CollIds |->
                  IF c = 42 THEN Coll(42, NameA, <<"/", "a">>, <<10, 11, 12, 13>>)
                  ELSE Coll(43, NameAB, NoneStr, <<>>)]]

WorldB ==
    [title |-> [i \in TitleIds |->
                  Title(i, IF i = 10 THEN SagaA ELSE NoCol,
                        IF i = 13 THEN <<"2", "0", "9", "9">> ELSE <<"2", "0", "0", "9">>,
                        IF i = 13 THEN "Planned" ELSE "Released")],
     coll |-> [c \in CollIds |->
                  IF c = 42 THEN Coll(42, NameA, NoneStr, <<10, 0, 13>>)
                  ELSE Coll(43, NameAB, NoneStr, <<>>)]]

WorldC ==
    [title |-> [i \in TitleIds |->
                  Title(i, IF i \in {10, 11} THEN SagaA ELSE SagaAB,
                        IF i = 13 THEN NoneStr ELSE <<"2", "0", "2", "4">>,
                        IF i = 13 THEN "Rumored" ELSE "Released")],
     coll |-> [c \in CollIds |->
                  IF c = 42 THEN Coll(42, NameA, <<"/", "a">>, <<13, 10, 11>>)
                  ELSE Coll(43, NameAB, <<"/", "b">>, <<12, 13, 13>>)]]

Worlds == {WorldA, WorldB, WorldC}

\* A provider whose collection 42 is named "A:  B".
NameColon == <<"A", ":", " ", " ", "B">>

WorldD ==
    [title |-> [i \in TitleIds |->
                  Title(i, [id |-> 42, name |-> NameColon], <<"2", "0", "0", "9">>, "Released")],
     coll |-> [c \in CollIds |->
                  IF c = 42 THEN Coll(42, NameColon, <<"/", "a">>, <<10, 11, 13>>)
                  ELSE Coll(43, NameAB, NoneStr, <<>>)]]

\* HTTP status codes of the provider's answers to successive attempts.
Codes == {200, 429, 401, 500}
AnswerSeqs == [1..attempts -> Codes]

\* The answers that decide whether a fetch yields data: at once, after one
\* failed attempt, never.
AnswersBrief ==
    {[a \in 1..attempts |-> 200], [a \in 1..attempts |-> IF a = 1 THEN 500 ELSE 200],
     [a \in 1..attempts |-> 500]}

(***************************************************************************)
(* State.                                                                  *)
(***************************************************************************)
VARIABLES
    args,           \* parse_args and the environment: the flags of the run
    pc,             \* where main (or the component under study) stands
    tmdb,           \* the TMDb connector: [api_key, offline_mode]
    cache,          \* JsonCache.data: [movie, collection], keyed by str(id)
    world,          \* what the metadata provider holds
    lastGet,        \* what the latest TMDb.get did
    titleCalls,     \* per title id, the fetches of this run that went to TMDb
    saw401,         \* the provider has answered 401
    callsAfter401,  \* a network call was made after a 401 answer
    movies,         \* the library, as Jellyfin lists it
    snapshot,       \* metadata/collections.json, or absent
    tmdb_to_jf,     \* build_tmdb_mapping's result
    jobs,           \* build_collections_online: the title jobs
    pending,        \* futures not yet completed
    mapping,        \* build_collections_online: cid -> name, ids
    collections,    \* the resolved collections, in insertion order
    missing_ids,    \* main: what batch_prefetch_missing_tmdb returned
    pm,             \* process_missing: its arguments, loop position and counters
    missing_requests,   \* Display.missing_requests
    jsRequested,    \* Jellyseerr: the titles it holds a request for
    jsCalls,        \* the calls made to Jellyseerr, per operation, in order
    jf,             \* the Jellyfin connector: [dry_run]
    server,         \* Jellyfin's groupings (BoxSets), in creation order
    jfSent,         \* the mutating requests sent to Jellyfin, per operation
    display,        \* Display: collections_created, collections_updated
    ap,             \* apply_collections: loop position, run, history
    th,             \* the threads inside TMDb.get: main (0) and the pool's workers
    tmdb_lock,      \* tmdb_lock: the thread that holds it, 0 when free
    _last_call_ts,  \* TMDb._last_call_ts, counted from the present time
    futures,        \* the pool's futures, per submitted id
    file            \* the cache file on disk, followed while a pool runs

varsTmdb == <<tmdb, cache, world, lastGet, titleCalls, saw401, callsAfter401>>
varsResolve == <<movies, snapshot, tmdb_to_jf, jobs, pending, mapping, collections>>
varsMissing == <<missing_ids, pm, missing_requests, jsRequested, jsCalls>>
varsApply == <<jf, server, jfSent, display, ap>>
varsThreads == <<th, tmdb_lock, _last_call_ts, futures, file>>
vars == <<args, pc, varsTmdb, varsResolve, varsMissing, varsApply, varsThreads>>

(***************************************************************************)
(* utils/cache.py                                                          *)
(***************************************************************************)
EmptyDict == [k \in {} |-> NoMeta]

EmptyCache == [movie |-> EmptyDict, collection |-> EmptyDict]

DictSet(d, k, v) == [x \in DOMAIN d \cup {k} |-> IF x = k THEN v ELSE d[x]]

DictGet(d, k) == IF k \in DOMAIN d THEN d[k] ELSE NoMeta

get_movie(c, tmdb_id) == DictGet(c.movie, Str(tmdb_id))

set_movie(c, tmdb_id, payload) == [c EXCEPT !.movie = DictSet(c.movie, Str(tmdb_id), payload)]

get_collection(c, cid) == DictGet(c.collection, Str(cid))

set_collection(c, cid, payload) ==
    [c EXCEPT !.collection = DictSet(c.collection, Str(cid), payload)]

\* prune_movies with a slip: the collection entries are pruned as well.
prune_movies_Both(c, valid_ids) ==
    LET valid == {Str(v) : v \in valid_ids}
    IN  [movie |-> [k \in DOMAIN c.movie \ (DOMAIN c.movie \ valid) |-> c.movie[k]],
         collection |-> [k \in DOMAIN c.collection \ (DOMAIN c.collection \ valid) |->
                            c.collection[k]]]

\* JsonCache.prune_movies: the keys that are not the string of a valid id
\* are popped from the movie dict.
prune_movies(c, valid_ids) ==
    LET valid == {Str(v) : v \in valid_ids}
        current == DOMAIN c.movie
        to_remove == current \ valid
    IN  IF to_remove = {} THEN c
        ELSE [c EXCEPT !.movie = [k \in current \ to_remove |-> c.movie[k]]]

(***************************************************************************)
(* utils/tmdb.py                                                           *)
(***************************************************************************)
\* The attempt loop of _request from attempt a on: 200 returns the data, 429
\* and every exception (the RuntimeError raised on 401 included) go on to the
\* next attempt.  codes are the answers received.
RECURSIVE RequestLoop(_, _)
RequestLoop(answers, a) ==
    IF a > attempts THEN [ok |-> FALSE, codes |-> <<>>]
    ELSE IF answers[a] = 200 THEN [ok |-> TRUE, codes |-> <<200>>]
    ELSE LET rest == RequestLoop(answers, a + 1)
         IN  [ok |-> rest.ok, codes |-> <<answers[a]>> \o rest.codes]

_request(t, answers) ==
    IF t.offline_mode THEN [ok |-> FALSE, codes |-> <<>>]
    ELSE RequestLoop(answers, 1)

_filter_movie(data) ==
    [id |-> data.id, title |-> data.title, release_date |-> data.release_date,
     status |-> data.status, belongs_to_collection |-> data.belongs_to_collection,
     poster_path |-> data.poster_path]

_filter_collection(data) ==
    LET kept == SelectSeq(data.parts, LAMBDA item : item.id # 0)
    IN  [id |-> data.id, name |-> data.name, poster_path |-> data.poster_path,
         parts |-> [i \in 1..Len(kept) |->
                      [id |-> kept[i].id, title |-> kept[i].title,
                       release_date |-> kept[i].release_date]]]

\* TMDb.get with a slip: the cache is not consulted before the request.
get_SkipCache(t, c, w, kind, id, answers) ==
    LET raw == _request(t, answers)
        filtered == IF kind = "movie" THEN _filter_movie(w.title[id])
                    ELSE _filter_collection(w.coll[id])
    IN  IF ~raw.ok
        THEN [value |-> NoMeta, cache |-> c, codes |-> raw.codes, hit |-> FALSE]
        ELSE [value |-> filtered,
              cache |-> IF kind = "movie" THEN set_movie(c, id, filtered)
                        ELSE set_collection(c, id, filtered),
              codes |-> raw.codes, hit |-> FALSE]

\* TMDb.get for /movie/<id> and /collection/<id>: the value returned, the
\* cache afterwards and the answers of the remote calls it made.
get(t, c, w, kind, id, answers) ==
    LET cached == IF kind = "movie" THEN get_movie(c, id) ELSE get_collection(c, id)
        raw == _request(t, answers)
        filtered == IF kind = "movie" THEN _filter_movie(w.title[id])
                    ELSE _filter_collection(w.coll[id])
    IN  IF cached # NoMeta
        THEN [value |-> cached, cache |-> c, codes |-> <<>>, hit |-> TRUE]
        ELSE IF ~raw.ok
        THEN [value |-> NoMeta, cache |-> c, codes |-> raw.codes, hit |-> FALSE]
        ELSE [value |-> filtered,
              cache |-> IF kind = "movie" THEN set_movie(c, id, filtered)
                        ELSE set_collection(c, id, filtered),
              codes |-> raw.codes, hit |-> FALSE]

Has401(codes) == \E i \in 1..Len(codes) : codes[i] = 401

\* A network call follows a 401 answer: within the codes, or after an
\* earlier 401.
After401(seen, codes) ==
    \/ seen /\ Len(codes) > 0
    \/ \E i \in 1..Len(codes) : codes[i] = 401 /\ i < Len(codes)

\* One more fetch of the title id that went to the provider.
Bump(tc, id) ==
    [x \in DOMAIN tc \cup {id} |-> IF x = id THEN (IF id \in DOMAIN tc THEN tc[id] ELSE 0) + 1 ELSE tc[x]]

NoTitleCalls == [x \in {} |-> 0]

\* The bookkeeping of one TMDb.get; before and after: the step makes another
\* network call before it, after it.
\* image: get_poster goes on to request the image.
NoteGetImage(kind, id, g, before, after, image) ==
    /\ cache' = g.cache
    /\ titleCalls' = IF kind = "movie" /\ Len(g.codes) >= 1 THEN Bump(titleCalls, id) ELSE titleCalls
    /\ lastGet' = [kind |-> kind, id |-> id, hit |-> g.hit, calls |-> Len(g.codes),
                   value |-> g.value, image |-> image]
    /\ saw401' = (saw401 \/ Has401(g.codes))
    /\ callsAfter401' =
          (\/ callsAfter401
           \/ After401(saw401, g.codes)
           \/ saw401 /\ (before \/ after)
           \/ Has401(g.codes) /\ after)

NoteGetWith(kind, id, g, before, after) == NoteGetImage(kind, id, g, before, after, FALSE)

NoteGet(kind, id, g) == NoteGetWith(kind, id, g, FALSE, FALSE)

(***************************************************************************)
(* The library and the snapshot file: the inputs of the resolver.          *)
(***************************************************************************)
JfIds == <<"jf1", "jf2", "jf3", "jf4", "jf5", "jf6">>

\* The ProviderIds a library item may carry.
ProviderChoices ==
    {[Tmdb |-> <<"1", "0">>], [Tmdb |-> <<"1", "1">>], [tmdb |-> <<"1", "2">>],
     [Tmdb |-> <<"x">>]}

\* Jellyfin assigns the item ids: an item's Id is its place in the listing.
Libraries ==
    {[i \in 1..Len(ps) |-> [Id |-> JfIds[i], ProviderIds |-> ps[i]]] :
        ps \in SeqsUpTo(ProviderChoices, MaxMovies)}

Absent == <<[absent |-> TRUE]>>

SnapEntry(cid, name, ids) ==
    [cid |-> cid, name |-> name,
     movies |-> [i \in 1..Len(ids) |-> [id |-> ids[i], title |-> <<"T">> \o Str(ids[i])]]]

Snapshots ==
    {Absent} \cup
    {<<SnapEntry(42, NameA, ids), SnapEntry(43, <<>>, <<12, 13>>)>> :
        ids \in SeqsUpTo({0, 10, 11, 13}, MaxMembers)}

(***************************************************************************)
(* auto_collections.py: the identity map and the two resolvers.            *)
(***************************************************************************)
NoInt == [ok |-> FALSE, val |-> 0]

Falsy(s) == s = NoneStr \/ s = <<>>

get_tmdb_id(item) ==
    LET provider_ids == item.ProviderIds
        upper == IF "Tmdb" \in DOMAIN provider_ids THEN provider_ids["Tmdb"] ELSE NoneStr
        lower == IF "tmdb" \in DOMAIN provider_ids THEN provider_ids["tmdb"] ELSE NoneStr
        tmdb_raw == IF ~Falsy(upper) THEN upper ELSE lower
    IN  IF Falsy(tmdb_raw) THEN NoInt ELSE PyInt(tmdb_raw)

\* The test with a slip: "if tmdb_id is None".
NotId_NoneOnly(r) == ~r.ok

\* "if not tmdb_id": None and 0 alike.
NotId(r) == ~r.ok \/ r.val = 0

RECURSIVE build_tmdb_mapping(_)
build_tmdb_mapping(ms) ==
    IF ms = <<>> THEN [k \in {} |-> <<>>]
    ELSE LET before == build_tmdb_mapping(SubSeq(ms, 1, Len(ms) - 1))
             m == ms[Len(ms)]
             tmdb_id == get_tmdb_id(m)
         IN  IF NotId(tmdb_id) THEN before
             ELSE [k \in DOMAIN before \cup {tmdb_id.val} |->
                     IF k = tmdb_id.val
                     THEN (IF k \in DOMAIN before THEN before[k] ELSE <<>>) \o <<m.Id>>
                     ELSE before[k]]

\* The entries of the snapshot as load_offline_collections returns them.
load_offline_collections(snap) ==
    [n \in 1..Len(snap) |->
        [cid |-> snap[n].cid,
         name |-> IF snap[n].name = <<>> THEN <<"C">> \o Str(snap[n].cid) ELSE snap[n].name,
         movies |-> SelectSeq(snap[n].movies, LAMBDA m : m.id # 0)]]

RECURSIVE Flatten(_)
Flatten(ss) == IF ss = <<>> THEN <<>> ELSE ss[1] \o Flatten(Tail(ss))

Ids(ms) == [i \in 1..Len(ms) |-> ms[i].id]

\* OfflineEntry with a slip: every declared member is listed as missing.
OfflineEntry_AllMissing(entry, t2j) ==
    LET all_movies == entry.movies
        present == SelectSeq(all_movies, LAMBDA m : m.id \in DOMAIN t2j)
        matched_ids == Flatten([i \in 1..Len(present) |-> t2j[present[i].id]])
    IN  [emit |-> Len(matched_ids) >= MIN_MOVIES,
         d |-> [cid |-> entry.cid, name |-> entry.name, ids |-> matched_ids,
                tmdb_collection_id |-> entry.cid, all_tmdb_ids |-> Ids(all_movies),
                missing_tmdb_ids |-> Ids(all_movies),
                missing_movies |-> all_movies]]

\* One iteration of the loop of build_collections_offline: the descriptor of
\* an entry, and whether it is put into the result.
OfflineEntry(entry, t2j) ==
    LET all_movies == entry.movies
        present == SelectSeq(all_movies, LAMBDA m : m.id \in DOMAIN t2j)
        matched_ids == Flatten([i \in 1..Len(present) |-> t2j[present[i].id]])
        missing_movies == SelectSeq(all_movies, LAMBDA m : m.id \notin DOMAIN t2j)
    IN  [emit |-> Len(matched_ids) >= MIN_MOVIES,
         d |-> [cid |-> entry.cid, name |-> entry.name, ids |-> matched_ids,
                tmdb_collection_id |-> entry.cid, all_tmdb_ids |-> Ids(all_movies),
                missing_tmdb_ids |-> Ids(missing_movies),
                missing_movies |-> missing_movies]]

build_collections_offline(snap, t2j) ==
    LET meta == load_offline_collections(snap)
        each == [n \in 1..Len(meta) |-> OfflineEntry(meta[n], t2j)]
        kept == SelectSeq(each, LAMBDA e : e.emit)
    IN  [n \in 1..Len(kept) |-> kept[n].d]

\* The jobs build_collections_online submits: one per item with a TMDb id.
OnlineJobs(ms) ==
    LET withId == SelectSeq(ms, LAMBDA m : ~NotId(get_tmdb_id(m)))
    IN  [i \in 1..Len(withId) |-> [tmdb_id |-> get_tmdb_id(withId[i]).val, jf_id |-> withId[i].Id]]

Index(seq, cid) == CHOOSE i \in 1..Len(seq) : seq[i].cid = cid

HasCid(seq, cid) == \E i \in 1..Len(seq) : seq[i].cid = cid

\* The accumulation with a slip: an entry that has reached MIN_MOVIES ids
\* takes no more.
Accumulate_Capped(mp, col, jf_id) ==
    IF HasCid(mp, col.id)
    THEN (IF Len(mp[Index(mp, col.id)].ids) >= MIN_MOVIES THEN mp
          ELSE [mp EXCEPT ![Index(mp, col.id)].ids = Append(@, jf_id)])
    ELSE Append(mp, [cid |-> col.id, name |-> col.name, ids |-> <<jf_id>>])

\* mapping.setdefault(cid, {name, ids: []}); mapping[cid]["ids"].append(jf_id)
Accumulate(mp, col, jf_id) ==
    IF HasCid(mp, col.id)
    THEN [mp EXCEPT ![Index(mp, col.id)].ids = Append(@, jf_id)]
    ELSE Append(mp, [cid |-> col.id, name |-> col.name, ids |-> <<jf_id>>])

OnlineDescriptor(d, all_tmdb, all_movies, missing) ==
    [cid |-> d.cid, name |-> d.name, ids |-> d.ids, tmdb_collection_id |-> d.cid,
     all_tmdb_ids |-> all_tmdb,
     missing_tmdb_ids |-> SelectSeq(all_tmdb, LAMBDA mid : mid \in missing),
     missing_movies |-> SelectSeq(all_movies, LAMBDA m : m.id \in missing)]

\* OnlineEntry with slips: the threshold test is off by one; the members
\* matched are those the accumulated entry holds no local copy for.
OnlineEntry_OffByOne(d, parts, t2j) ==
    LET items == IF parts = NoMeta THEN <<>> ELSE parts.parts
        withId == SelectSeq(items, LAMBDA i : i.id # 0)
        all_tmdb == Ids(withId)
        all_movies == [i \in 1..Len(withId) |-> [id |-> withId[i].id, title |-> withId[i].title]]
    IN  [emit |-> Len(d.ids) >= MIN_MOVIES - 1,
         d |-> OnlineDescriptor(d, all_tmdb, all_movies,
                                {all_tmdb[i] : i \in 1..Len(all_tmdb)} \ DOMAIN t2j)]

OnlineEntry_FirstMissing(d, parts, t2j) ==
    LET items == IF parts = NoMeta THEN <<>> ELSE parts.parts
        withId == SelectSeq(items, LAMBDA i : i.id # 0)
        all_tmdb == Ids(withId)
        all_movies == [i \in 1..Len(withId) |-> [id |-> withId[i].id, title |-> withId[i].title]]
    IN  [emit |-> Len(d.ids) >= MIN_MOVIES,
         d |-> OnlineDescriptor(d, all_tmdb, all_movies,
                                {all_tmdb[i] : i \in 1..Len(all_tmdb)} \ (DOMAIN t2j \ {all_tmdb[1]}))]

\* The body of the second as_completed loop for one collection: parts is
\* what TMDb.get returned ("or {}"), d the accumulated entry.
OnlineEntry(d, parts, t2j) ==
    LET items == IF parts = NoMeta THEN <<>> ELSE parts.parts
        withId == SelectSeq(items, LAMBDA i : i.id # 0)
        all_tmdb == Ids(withId)
        all_movies == [i \in 1..Len(withId) |-> [id |-> withId[i].id, title |-> withId[i].title]]
        matched == {all_tmdb[i] : i \in {k \in 1..Len(all_tmdb) : all_tmdb[k] \in DOMAIN t2j}}
    IN  [emit |-> Len(d.ids) >= MIN_MOVIES,
         d |-> [cid |-> d.cid, name |-> d.name, ids |-> d.ids,
                tmdb_collection_id |-> d.cid, all_tmdb_ids |-> all_tmdb,
                missing_tmdb_ids |-> SelectSeq(all_tmdb, LAMBDA mid : mid \notin matched),
                missing_movies |-> SelectSeq(all_movies, LAMBDA m : m.id \notin matched)]]

(***************************************************************************)
(* build_collections_online and build_collections_offline as steps.  The   *)
(* futures of a pool complete in any order; each completion is one step:   *)
(* the TMDb.get of the worker and the loop body of the main thread.        *)
(***************************************************************************)
NoGet == [kind |-> "none", id |-> 0, hit |-> FALSE, calls |-> 0, value |-> NoMeta, image |-> FALSE]

\* build_collections_online up to the submission of the title jobs.
StartOnline ==
    /\ pc = "build_online"
    /\ LET js == OnlineJobs(movies)
       IN  /\ jobs' = js
           /\ pending' = 1..Len(js)
           /\ pc' = IF Len(js) = 0 THEN "resolved" ELSE "titles"
    /\ mapping' = <<>>
    /\ collections' = <<>>
    /\ UNCHANGED <<args, varsThreads, varsTmdb, varsMissing, varsApply, movies, snapshot, tmdb_to_jf>>

\* A title future completes.  After the last one the collection jobs are
\* submitted, one per accumulated collection id.
TitleDone(j, answers) ==
    /\ pc = "titles"
    /\ j \in pending
    /\ LET job == jobs[j]
           g == get(tmdb, cache, world, "movie", job.tmdb_id, answers)
           info == g.value
           col == IF info = NoMeta THEN NoCol ELSE info.belongs_to_collection
           mp == IF col.id = 0 THEN mapping ELSE Accumulate(mapping, col, job.jf_id)
       IN  /\ NoteGet("movie", job.tmdb_id, g)
           /\ mapping' = mp
           /\ IF pending = {j}
              THEN /\ pending' = {mp[i].cid : i \in 1..Len(mp)}
                   /\ pc' = IF mp = <<>> THEN "resolved" ELSE "colls"
              ELSE /\ pending' = pending \ {j}
                   /\ pc' = pc
    /\ UNCHANGED <<args, varsThreads, tmdb, world, varsMissing, varsApply, movies, snapshot, tmdb_to_jf, jobs, collections>>

\* A collection future completes.
CollDone(cid, answers) ==
    /\ pc = "colls"
    /\ cid \in pending
    /\ LET g == get(tmdb, cache, world, "collection", cid, answers)
           e == OnlineEntry(mapping[Index(mapping, cid)], g.value, tmdb_to_jf)
       IN  /\ NoteGet("collection", cid, g)
           /\ collections' = IF e.emit THEN Append(collections, e.d) ELSE collections
    /\ pending' = pending \ {cid}
    /\ pc' = IF pending = {cid} THEN "resolved" ELSE pc
    /\ UNCHANGED <<args, varsThreads, tmdb, world, varsMissing, varsApply, movies, snapshot, tmdb_to_jf, jobs, mapping>>

\* build_collections_offline with a slip: the cache is pruned to the library
\* before the snapshot file is looked for.
BuildOffline_PruneFirst ==
    /\ pc = "build_offline"
    /\ cache' = prune_movies(cache, DOMAIN tmdb_to_jf)
    /\ IF snapshot = Absent
       THEN /\ pc' = "exit1"
            /\ collections' = collections
       ELSE /\ pc' = "resolved"
            /\ collections' = build_collections_offline(snapshot, tmdb_to_jf)
    /\ UNCHANGED <<args, varsThreads, tmdb, world, lastGet, titleCalls, saw401, callsAfter401,
                   varsMissing, varsApply,
                   movies, snapshot, tmdb_to_jf, jobs, pending, mapping>>

\* build_collections_offline; load_offline_collections exits without the file.
BuildOffline ==
    /\ pc = "build_offline"
    /\ IF snapshot = Absent
       THEN /\ pc' = "exit1"
            /\ collections' = collections
       ELSE /\ pc' = "resolved"
            /\ collections' = build_collections_offline(snapshot, tmdb_to_jf)
    /\ UNCHANGED <<args, varsThreads, varsTmdb, varsMissing, varsApply, movies, snapshot, tmdb_to_jf, jobs, pending, mapping>>

(***************************************************************************)
(* The resolver on its own: every library, with the provider's data or a   *)
(* snapshot.                                                               *)
(***************************************************************************)
\* The flags of parse_args and what the environment holds: the TMDb key, the
\* Jellyfin and Jellyseerr credentials, a usable Jellyfin user.
ArgsNone ==
    [dry_run |-> TRUE, jellyseer |-> FALSE, jellyseer_send |-> FALSE, has_tmdb_key |-> TRUE,
     jf_env |-> TRUE, js_env |-> TRUE, has_user |-> TRUE]

\* A thread that is not inside TMDb.get.
\* attempt: the loop variable of _request; n429: the 429 answers among its
\* attempts; wake: the end of the thread's sleep; gap: the time from the
\* stamp before its own to the start of its call, as far as it is below
\* CALL_INTERVAL_SECONDS; buf: what save has written into its file object.
NoThread ==
    [pc |-> "idle", id |-> 0, attempt |-> 0, n429 |-> 0, wake |-> 0, gap |-> 0,
     ret |-> "none", buf |-> NoMeta]

\* A stamp that lies CALL_INTERVAL_SECONDS or more in the past.
LongAgo == 0 - CALL_INTERVAL_SECONDS

\* No pool is running.
IdleThreads ==
    /\ th = [t \in 0..MaxWorkers |-> NoThread]
    /\ tmdb_lock = 0
    /\ _last_call_ts = LongAgo
    /\ futures = [c \in {} |-> "queued"]
    /\ file = cache

IdleTmdb ==
    /\ lastGet = NoGet
    /\ titleCalls = NoTitleCalls
    /\ saw401 = FALSE
    /\ callsAfter401 = FALSE
    /\ IdleThreads

NoCalls == [details |-> <<>>, check |-> <<>>, request |-> <<>>]

SkipLabels ==
    {"No metadata", "No release date", "Invalid release date", "Unreleased (future year)",
     "Rumored/Planned"}

\* last: how the Jellyseerr check and submission of the latest iteration
\* ended, "none" for a call that was not made.
\* ret: "" while process_missing has not returned, "early" for (0, {}, 0),
\* "full" for (count, skipped_stats, total_missing).
PmIdle ==
    [client |-> FALSE, dry_run |-> TRUE, k |-> 0, count |-> 0,
     skipped_stats |-> [l \in SkipLabels |-> 0], total_missing |-> 0, ret |-> "",
     last |-> [chk |-> "none", req |-> "none"]]

IdleMissing ==
    /\ missing_ids = <<>>
    /\ pm = PmIdle
    /\ missing_requests = <<>>
    /\ jsRequested = {}
    /\ jsCalls = NoCalls

NoneSent == [create |-> 0, add |-> 0, upload |-> 0]

NoDisplay == [collections_created |-> <<>>, collections_updated |-> <<>>]

\* failed: a request to Jellyfin has failed; after1: the groupings as the
\* first run left them.
ApIdle ==
    [i |-> 0, run |-> 1, failed |-> FALSE, after1 |-> <<>>, trace |-> <<>>, trace1 |-> <<>>,
     result1 |-> <<>>]

IdleApply ==
    /\ jf = [dry_run |-> TRUE]
    /\ server = <<>>
    /\ jfSent = NoneSent
    /\ display = NoDisplay
    /\ ap = ApIdle

IdleResolve ==
    /\ jobs = <<>>
    /\ pending = {}
    /\ mapping = <<>>
    /\ collections = <<>>

InitResolve ==
    /\ movies \in Libraries
    /\ tmdb_to_jf = build_tmdb_mapping(movies)
    /\ \/ /\ pc = "build_online"
          /\ world \in Worlds
          /\ snapshot = Absent
       \/ /\ pc = "build_offline"
          /\ world = WorldA
          /\ snapshot \in Snapshots
    /\ args = [ArgsNone EXCEPT !.has_tmdb_key = (pc = "build_online")]
    /\ tmdb = [api_key |-> args.has_tmdb_key, offline_mode |-> ~args.has_tmdb_key]
    /\ cache = EmptyCache
    /\ IdleTmdb
    /\ IdleResolve
    /\ IdleMissing
    /\ IdleApply

NextResolve ==
    \/ StartOnline
    \/ \E j \in pending, answers \in AnswersBrief : TitleDone(j, answers)
    \/ \E cid \in pending, answers \in AnswersBrief : CollDone(cid, answers)
    \/ BuildOffline

SpecResolve == InitResolve /\ [][NextResolve]_vars

(***************************************************************************)
(* Properties of the resolver.                                             *)
(***************************************************************************)
Range(seq) == {seq[i] : i \in 1..Len(seq)}

C6_MissingOnline ==
    (pc \in {"colls", "resolved"} /\ lastGet.kind = "collection"
        /\ HasCid(collections, lastGet.id)) =>
    LET d == collections[Index(collections, lastGet.id)]
        canonical == IF lastGet.value = NoMeta THEN <<>> ELSE lastGet.value.parts
        expected == SelectSeq(canonical, LAMBDA m : m.id \notin DOMAIN tmdb_to_jf)
    IN  /\ Ids(d.missing_movies) = Ids(expected)
        /\ d.missing_tmdb_ids = Ids(expected)
        /\ \A i \in 1..Len(expected) : d.missing_movies[i].title = expected[i].title

\* The library maps to {10, 11, 12}, the collection has the members
\* 10, 11, 12, 13: one descriptor, three present local ids, missing = [13].
C6_Witness ==
    /\ pc = "resolved"
    /\ DOMAIN tmdb_to_jf = {10, 11, 12}
    /\ lastGet.kind = "collection" /\ lastGet.id = 42
    /\ Len(collections) = 1
    /\ Len(collections[1].ids) = 3
    /\ collections[1].all_tmdb_ids = <<10, 11, 12, 13>>
    /\ Ids(collections[1].missing_movies) = <<13>>

\* The members a snapshot entry declares: those that carry an id.
Declared(entry) == SelectSeq(Ids(entry.movies), LAMBDA id : id # 0)

\* C7: offline, the declared members of a snapshot collection are partitioned
\* by the identity map: the present local ids are those mapped from the
\* declared members that are keys of the map, the missing items are the
\* declared members that are not, and no member is in both or in neither.
C7_PartitionOffline ==
    (pc = "resolved" /\ snapshot # Absent) =>
    \A i \in 1..Len(collections) :
        LET d == collections[i]
            entry == snapshot[CHOOSE n \in 1..Len(snapshot) : snapshot[n].cid = d.cid]
            declared == Declared(entry)
            keys == DOMAIN tmdb_to_jf
        IN  /\ Range(d.ids) = UNION {Range(tmdb_to_jf[m]) : m \in Range(declared) \cap keys}
            /\ Ids(d.missing_movies) = SelectSeq(declared, LAMBDA m : m \notin keys)
            /\ \A m \in Range(declared) :
                  (m \in Range(Ids(d.missing_movies)))
                      # (m \in keys /\ Range(tmdb_to_jf[m]) \subseteq Range(d.ids))

\* Offline, a descriptor with present and with missing members.
C7_Witness ==
    /\ pc = "resolved"
    /\ snapshot # Absent
    /\ \E i \in 1..Len(collections) :
          /\ Len(collections[i].ids) >= 2
          /\ Len(collections[i].missing_movies) >= 1
          /\ Len(collections[i].all_tmdb_ids) > Len(collections[i].missing_movies)

(***************************************************************************)
(* process_missing                                                         *)
(***************************************************************************)
\* The (collection, missing movie) pairs in the order of the nested loops.
Pairs(cols) ==
    Flatten([i \in 1..Len(cols) |->
               [j \in 1..Len(cols[i].missing_movies) |->
                  [cname |-> cols[i].name, movie |-> cols[i].missing_movies[j]]]])

\* CachedMovie.from_tmdb
from_tmdb(data) ==
    [id |-> data.id, title |-> data.title, release_date |-> data.release_date,
     status |-> data.status]

\* Classify with a slip: the status is tested before the release year.
Classify_StatusFirst(details_raw) ==
    LET details == from_tmdb(details_raw)
        release_date == details.release_date
        release_year == PyInt(Prefix(release_date, 4))
    IN  IF Falsy(release_date) THEN "No release date"
        ELSE IF ~release_year.ok THEN "Invalid release date"
        ELSE IF details.status \in {"Rumored", "Planned"} THEN "Rumored/Planned"
        ELSE IF release_year.val > CURRENT_YEAR THEN "Unreleased (future year)"
        ELSE "eligible"

\* The skip tests of process_missing, in the order of the code.
Classify(details_raw) ==
    LET details == from_tmdb(details_raw)
        release_date == details.release_date
        release_year == PyInt(Prefix(release_date, 4))
    IN  IF Falsy(release_date) THEN "No release date"
        ELSE IF ~release_year.ok THEN "Invalid release date"
        ELSE IF release_year.val > CURRENT_YEAR THEN "Unreleased (future year)"
        ELSE IF details.status \in {"Rumored", "Planned"} THEN "Rumored/Planned"
        ELSE "eligible"

\* JellyseerrClient.fallback_tmdb_movie: reply is what GET /movie/<id> gave,
\* NoMeta when the request failed.
fallback_tmdb_movie(reply) ==
    IF reply = NoMeta THEN NoMeta
    ELSE [id |-> reply.id, title |-> reply.title, release_date |-> reply.release_date,
          status |-> reply.status, belongs_to_collection |-> NoCol, poster_path |-> NoneStr]

\* The metadata chain with a slip: Jellyseerr is asked whenever the cache
\* has nothing, whatever TMDb returned.
ResolveMeta_FallbackAnyway(t, c, w, client, tmdb_id, answers, fb) ==
    LET cached == get_movie(c, tmdb_id)
        useApi == cached = NoMeta /\ t.api_key /\ ~t.offline_mode
        g == get(t, c, w, "movie", tmdb_id, answers)
        viaApi == IF useApi /\ g.value # NoMeta
                  THEN [d |-> g.value, c |-> set_movie(g.cache, tmdb_id, g.value)]
                  ELSE [d |-> cached, c |-> IF useApi THEN g.cache ELSE c]
        useFb == cached = NoMeta /\ client
        fallback == fallback_tmdb_movie(IF fb = "ok" THEN w.title[tmdb_id] ELSE NoMeta)
    IN  [details_raw |-> IF useFb THEN fallback ELSE viaApi.d,
         cache |-> IF useFb /\ fallback # NoMeta THEN set_movie(viaApi.c, tmdb_id, fallback)
                   ELSE viaApi.c,
         useApi |-> useApi, g |-> g, useFb |-> useFb]

\* The metadata chain of one missing movie: cache, TMDb, Jellyseerr.
ResolveMeta(t, c, w, client, tmdb_id, answers, fb) ==
    LET cached == get_movie(c, tmdb_id)
        useApi == cached = NoMeta /\ t.api_key /\ ~t.offline_mode
        g == get(t, c, w, "movie", tmdb_id, answers)
        viaApi == IF useApi /\ g.value # NoMeta
                  THEN [d |-> g.value, c |-> set_movie(g.cache, tmdb_id, g.value)]
                  ELSE [d |-> cached, c |-> IF useApi THEN g.cache ELSE c]
        useFb == viaApi.d = NoMeta /\ client
        fallback == fallback_tmdb_movie(IF fb = "ok" THEN w.title[tmdb_id] ELSE NoMeta)
    IN  [details_raw |-> IF useFb THEN fallback ELSE viaApi.d,
         cache |-> IF useFb /\ fallback # NoMeta THEN set_movie(viaApi.c, tmdb_id, fallback)
                   ELSE viaApi.c,
         useApi |-> useApi, g |-> g, useFb |-> useFb]

\* The request stage with a slip: the dry-run test is made after the lookup.
RequestStage_LateDryRun(class, dry_run, requested, chk, req) ==
    LET asks == class = "eligible"
        existing == asks /\ chk = "ok" /\ requested
        submits == asks /\ ~dry_run /\ ~existing
    IN  [asks |-> asks, submits |-> submits,
         counted |-> class = "eligible" /\ (dry_run \/ (submits /\ req = "ok"))]

\* The request stage with a slip: a failed check ends the iteration.
RequestStage_CheckErrorSkips(class, dry_run, requested, chk, req) ==
    LET asks == class = "eligible" /\ ~dry_run
        submits == asks /\ chk = "ok" /\ ~requested
    IN  [asks |-> asks, submits |-> submits,
         counted |-> class = "eligible" /\ (dry_run \/ (submits /\ req = "ok"))]

\* The request stage with a slip: in a dry run a skipped movie is counted
\* as well.
RequestStage_CountsSkipped(class, dry_run, requested, chk, req) ==
    LET asks == class = "eligible" /\ ~dry_run
        existing == asks /\ chk = "ok" /\ requested
        submits == asks /\ ~existing
    IN  [asks |-> asks, submits |-> submits,
         counted |-> dry_run \/ (submits /\ req = "ok")]

\* What process_missing does with a classified movie: in a dry run an
\* eligible movie is logged and counted; otherwise Jellyseerr is asked
\* whether it holds the movie (an error reads as no) and, if not, the request
\* is submitted and counted when it succeeds.
RequestStage(class, dry_run, requested, chk, req) ==
    LET asks == class = "eligible" /\ ~dry_run
        existing == asks /\ chk = "ok" /\ requested
        submits == asks /\ ~existing
    IN  [asks |-> asks, submits |-> submits,
         counted |-> class = "eligible" /\ (dry_run \/ (submits /\ req = "ok"))]

\* The entry of process_missing: without a client it returns (0, {}, 0).
PMStart ==
    /\ pc = "pm_call"
    /\ IF ~pm.client
       THEN /\ pm' = [pm EXCEPT !.ret = "early"]
            /\ pc' = "pm_done"
       ELSE IF Pairs(collections) = <<>>
       THEN /\ pm' = [pm EXCEPT !.ret = "full"]
            /\ pc' = "pm_done"
       ELSE /\ pm' = [pm EXCEPT !.k = 1]
            /\ pc' = "pm_loop"
    /\ UNCHANGED <<args, varsThreads, varsTmdb, varsResolve, varsApply, missing_ids, missing_requests, jsRequested,
                   jsCalls>>

\* One iteration of the inner loop.  answers, fb, chk and req are what TMDb
\* and Jellyseerr answer, should they be asked.
PMStep(answers, fb, chk, req) ==
    /\ pc = "pm_loop"
    /\ LET pair == Pairs(collections)[pm.k]
           tmdb_id == pair.movie.id
           r == ResolveMeta(tmdb, cache, world, pm.client, tmdb_id, answers, fb)
           class == IF r.details_raw = NoMeta THEN "No metadata" ELSE Classify(r.details_raw)
           codes == IF r.useApi THEN r.g.codes ELSE <<>>
           stage == RequestStage(class, pm.dry_run, tmdb_id \in jsRequested, chk, req)
           asks == stage.asks
           submits == stage.submits
           counted == stage.counted
           last == pm.k = Len(Pairs(collections))
       IN  /\ cache' = r.cache
           /\ lastGet' = IF r.useApi
                         THEN [kind |-> "movie", id |-> tmdb_id, hit |-> r.g.hit,
                               calls |-> Len(codes), value |-> r.g.value, image |-> FALSE]
                         ELSE lastGet
           /\ titleCalls' = IF Len(codes) >= 1 THEN Bump(titleCalls, tmdb_id) ELSE titleCalls
           /\ saw401' = (saw401 \/ Has401(codes))
           /\ callsAfter401' =
                 (\/ callsAfter401
                  \/ After401(saw401, codes)
                  \/ (saw401 \/ Has401(codes)) /\ (r.useFb \/ asks))
           /\ pm' = [pm EXCEPT !.k = @ + 1,
                               !.total_missing = @ + 1,
                               !.count = IF counted THEN @ + 1 ELSE @,
                               !.skipped_stats =
                                   IF class \in SkipLabels THEN [@ EXCEPT ![class] = @ + 1] ELSE @,
                               !.last = [chk |-> IF asks THEN chk ELSE "none",
                                         req |-> IF submits THEN req ELSE "none"],
                               !.ret = IF last THEN "full" ELSE @]
           /\ missing_requests' =
                 IF counted THEN Append(missing_requests, [tmdb_id |-> tmdb_id, cname |-> pair.cname])
                 ELSE missing_requests
           /\ jsRequested' = IF submits /\ req = "ok" THEN jsRequested \cup {tmdb_id} ELSE jsRequested
           /\ jsCalls' = [details |-> IF r.useFb THEN Append(jsCalls.details, tmdb_id)
                                      ELSE jsCalls.details,
                          check |-> IF asks THEN Append(jsCalls.check, tmdb_id) ELSE jsCalls.check,
                          request |-> IF submits THEN Append(jsCalls.request, tmdb_id)
                                      ELSE jsCalls.request]
           /\ pc' = IF last THEN "pm_done" ELSE pc
    /\ UNCHANGED <<args, varsThreads, tmdb, world, varsResolve, varsApply, missing_ids>>

Outcomes == {"ok", "fail"}

(***************************************************************************)
(* The classification of one missing movie whose metadata is cached: every *)
(* release date of up to MaxDateLen characters, every status.              *)
(***************************************************************************)
DateChars == {"0", "2", "4", "9", "-"}
ReleaseDates == SeqsUpTo(DateChars, MaxDateLen) \cup {NoneStr}
Statuses == {"Released", "Planned", "Rumored", "None"}

TwoMovies ==
    <<[Id |-> JfIds[1], ProviderIds |-> [Tmdb |-> <<"1", "0">>]],
      [Id |-> JfIds[2], ProviderIds |-> [Tmdb |-> <<"1", "1">>]]>>

\* A resolved collection of the two movies, 13 missing.
OneMissing ==
    [cid |-> 42, name |-> NameA, ids |-> <<JfIds[1], JfIds[2]>>, tmdb_collection_id |-> 42,
     all_tmdb_ids |-> <<10, 11, 13>>, missing_tmdb_ids |-> <<13>>,
     missing_movies |-> <<[id |-> 13, title |-> <<"T">> \o Str(13)]>>]

InitClassify ==
    /\ args = ArgsNone
    /\ pc = "pm_loop"
    /\ tmdb = [api_key |-> TRUE, offline_mode |-> FALSE]
    /\ world = WorldA
    /\ \E date \in ReleaseDates, status \in Statuses :
          cache = set_movie(EmptyCache, 13, Title(13, SagaA, date, status))
    /\ IdleTmdb
    /\ movies = TwoMovies
    /\ snapshot = Absent
    /\ tmdb_to_jf = build_tmdb_mapping(movies)
    /\ jobs = <<>>
    /\ pending = {}
    /\ mapping = <<>>
    /\ collections = <<OneMissing>>
    /\ missing_ids = <<>>
    /\ \E dry \in BOOLEAN : pm = [PmIdle EXCEPT !.client = TRUE, !.dry_run = dry, !.k = 1]
    /\ missing_requests = <<>>
    /\ jsRequested = {}
    /\ jsCalls = NoCalls
    /\ IdleApply

\* The metadata is cached: neither TMDb nor the fallback is asked.
NextClassify ==
    \E chk \in Outcomes, req \in Outcomes :
        PMStep([a \in 1..attempts |-> 200], "ok", chk, req)

SpecClassify == InitClassify /\ [][NextClassify]_vars

\* A text that reads as an integer: digits, after an optional sign.
IsIntegerText(t) ==
    \/ Len(t) >= 1 /\ \A i \in 1..Len(t) : IsDigit(t[i])
    \/ Len(t) >= 2 /\ t[1] \in {"-", "+"} /\ \A i \in 2..Len(t) : IsDigit(t[i])

IntegerOf(t) == IF t[1] = "-" THEN 0 - DecVal(Tail(t)) ELSE IF t[1] = "+" THEN DecVal(Tail(t)) ELSE DecVal(t)

\* The outcome the decision list of the claim gives.
Decision(release_date, status, currentYear) ==
    IF release_date = NoneStr \/ release_date = <<>> THEN "No release date"
    ELSE IF ~IsIntegerText(Prefix(release_date, 4)) THEN "Invalid release date"
    ELSE IF IntegerOf(Prefix(release_date, 4)) > currentYear THEN "Unreleased (future year)"
    ELSE IF status = "Rumored" \/ status = "Planned" THEN "Rumored/Planned"
    ELSE "eligible"

\* The movie went on to the request stage: counted in a dry run, otherwise
\* looked up in Jellyseerr.
Eligible13 ==
    IF pm.dry_run THEN pm.count = 1 /\ jsCalls.check = <<>>
    ELSE jsCalls.check = <<13>>

\* C5: the classification of a missing movie with metadata is a total
\* function of (release date, status, current year), decided in the order
\* no release date, invalid release date, future year, Rumored/Planned,
\* eligible; exactly one outcome applies, and a future year with status
\* Planned counts as unreleased.
C5_Classification ==
    pm.k = 2 =>
    LET meta == get_movie(cache, 13)
        outcome == Decision(meta.release_date, meta.status, 2024)
    IN  /\ \A l \in SkipLabels : pm.skipped_stats[l] = (IF l = outcome THEN 1 ELSE 0)
        /\ (outcome = "eligible") = Eligible13
        /\ outcome # "eligible" => pm.count = 0 /\ jsCalls.check = <<>>

\* A future year with status Planned is counted as unreleased.
C5_Witness ==
    /\ pm.k = 2
    /\ get_movie(cache, 13).release_date = <<"2", "0", "9", "9">>
    /\ get_movie(cache, 13).status = "Planned"
    /\ pm.skipped_stats["Unreleased (future year)"] = 1
    /\ pm.skipped_stats["Rumored/Planned"] = 0

(***************************************************************************)
(* process_missing on its own: resolved collections with missing movies,   *)
(* a cache that covers some of them, online or offline, with or without a  *)
(* client, in a dry run or not.                                            *)
(***************************************************************************)
TwoMissing ==
    [cid |-> 43, name |-> NameAB, ids |-> <<JfIds[1], JfIds[2]>>, tmdb_collection_id |-> 43,
     all_tmdb_ids |-> <<10, 11, 12, 13>>, missing_tmdb_ids |-> <<12, 13>>,
     missing_movies |-> <<[id |-> 12, title |-> <<"T">> \o Str(12)],
                          [id |-> 13, title |-> <<"T">> \o Str(13)]>>]

ResolvedChoices == {<<OneMissing>>, <<OneMissing, TwoMissing>>}

InitMissing ==
    /\ args = ArgsNone
    /\ pc = "pm_call"
    /\ \E online \in BOOLEAN : tmdb = [api_key |-> online, offline_mode |-> ~online]
    /\ world \in Worlds
    /\ cache \in {EmptyCache, set_movie(EmptyCache, 13, _filter_movie(world.title[13]))}
    /\ IdleTmdb
    /\ movies = TwoMovies
    /\ snapshot = Absent
    /\ tmdb_to_jf = build_tmdb_mapping(movies)
    /\ jobs = <<>>
    /\ pending = {}
    /\ mapping = <<>>
    /\ collections \in ResolvedChoices
    /\ missing_ids = <<>>
    /\ \E client \in BOOLEAN, dry \in BOOLEAN :
          pm = [PmIdle EXCEPT !.client = client, !.dry_run = dry]
    /\ missing_requests = <<>>
    /\ jsRequested \in {{}, {13}}
    /\ jsCalls = NoCalls
    /\ IdleApply

NextMissing ==
    \/ PMStart
    \/ \E answers \in AnswersBrief, fb \in Outcomes, chk \in Outcomes, req \in Outcomes :
          PMStep(answers, fb, chk, req)

SpecMissing == InitMissing /\ [][NextMissing]_vars

\* Eligible as the claim has it: a valid release year not after the current
\* year, a status neither Rumored nor Planned.
EligibleMeta(meta) ==
    /\ meta # NoMeta
    /\ meta.release_date # NoneStr
    /\ IsIntegerText(Prefix(meta.release_date, 4))
    /\ IntegerOf(Prefix(meta.release_date, 4)) <= 2024
    /\ meta.status \notin {"Rumored", "Planned"}

\* C4: in a dry run of process_missing every eligible missing movie is
\* recorded as a would-request event and adds one to the count, and neither
\* the already-requested check nor the submission is invoked.  (The metadata
\* a movie resolved to is its cache entry after the iteration.)
C4_DryRunCounts ==
    [][(pc = "pm_loop" /\ pm.dry_run /\ pm'.k = pm.k + 1) =>
        LET pair == Pairs(collections)[pm.k]
            eligible == EligibleMeta(get_movie(cache', pair.movie.id))
        IN  /\ pm'.count = pm.count + (IF eligible THEN 1 ELSE 0)
            /\ missing_requests' =
                  IF eligible
                  THEN Append(missing_requests, [tmdb_id |-> pair.movie.id, cname |-> pair.cname])
                  ELSE missing_requests
            /\ jsCalls'.check = <<>>
            /\ jsCalls'.request = <<>>
            /\ jsRequested' = jsRequested]_vars

\* A dry run that counted an eligible movie and skipped another.
C4_Witness ==
    /\ pm.dry_run
    /\ pm.ret = "full"
    /\ pm.count >= 1
    /\ pm.total_missing > pm.count
    /\ Len(missing_requests) = pm.count
    /\ jsCalls.check = <<>>

(***************************************************************************)
(* utils/jellyfin.py, with the server behind it.  A grouping is            *)
(* [Id, Name, Items, image]; Items is a set: adding items is a set union.  *)
(* ok is whether the HTTP request succeeds.                                *)
(***************************************************************************)
NoId == <<>>

GId(n) == <<"g">> \o Str(n)

Contains(name, term) ==
    \E i \in 0..(Len(name) - Len(term)) : SubSeq(name, i + 1, i + Len(term)) = term

\* find_collection with a slip: the item's Id is compared with the name.
find_collection_ById(srv, name, ok) ==
    LET found == SelectSeq(srv, LAMBDA g : Contains(g.Name, name))
        exact == SelectSeq(found, LAMBDA g : g.Id = name)
    IN  IF ok # "ok" \/ exact = <<>> THEN NoId ELSE exact[1].Id

\* The server lists the groupings whose name contains the search term; the
\* client takes the first of them with exactly that name.
find_collection(srv, name, ok) ==
    LET found == SelectSeq(srv, LAMBDA g : Contains(g.Name, name))
        exact == SelectSeq(found, LAMBDA g : g.Name = name)
    IN  IF ok # "ok" \/ exact = <<>> THEN NoId ELSE exact[1].Id

\* post with a slip: the dry-run flag is not consulted.
post_Always(j, ok) == [sent |-> TRUE, ok |-> ok = "ok"]

\* Jellyfin.post: whether a request is sent, and whether it succeeded.
post(j, ok) ==
    IF j.dry_run THEN [sent |-> FALSE, ok |-> FALSE]
    ELSE [sent |-> TRUE, ok |-> ok = "ok"]

\* POST /Collections/<id>/Items
AddItems(srv, id, ids) ==
    [n \in 1..Len(srv) |->
        IF srv[n].Id = id THEN [srv[n] EXCEPT !.Items = @ \cup Range(ids)] ELSE srv[n]]

create_collection(j, srv, name, ids, ok) ==
    IF ids = <<>> THEN [id |-> NoId, server |-> srv, sent |-> FALSE]
    ELSE LET resp == post(j, ok)
         IN  IF resp.ok
             THEN [id |-> GId(Len(srv) + 1),
                   server |-> Append(srv, [Id |-> GId(Len(srv) + 1), Name |-> name,
                                           Items |-> Range(ids), image |-> FALSE]),
                   sent |-> TRUE]
             ELSE [id |-> NoId, server |-> srv, sent |-> resp.sent]

upload_image(j, ok) ==
    IF j.dry_run THEN [sent |-> FALSE, ret |-> TRUE]
    ELSE [sent |-> TRUE, ret |-> ok = "ok"]

SetImage(srv, id) ==
    [n \in 1..Len(srv) |-> IF srv[n].Id = id THEN [srv[n] EXCEPT !.image = TRUE] ELSE srv[n]]

has_primary_image(srv, id, ok) ==
    ok = "ok" /\ \E n \in 1..Len(srv) : srv[n].Id = id /\ srv[n].image

\* TMDb.get_poster: the collection record through get, then the image.
get_poster(t, c, w, cid, answers, ok) ==
    LET g == get(t, c, w, "collection", cid, answers)
        asks == g.value # NoMeta /\ ~Falsy(g.value.poster_path)
    IN  [g |-> g, asks |-> asks, bytes |-> asks /\ ok = "ok"]

NetFields == {"find", "post", "img", "poster", "upload"}

\* What the requests of one iteration of apply_collections meet: at most one
\* of them fails.
NetOutcomes ==
    {net \in [NetFields -> Outcomes] : Cardinality({f \in NetFields : net[f] # "ok"}) <= 1}

(***************************************************************************)
(* apply_collections: one iteration of its loop per step.                  *)
(***************************************************************************)
ApplyStep(net, answers) ==
    /\ pc = "apply"
    /\ LET d == collections[ap.i]
           existing_id == find_collection(server, d.name, net.find)
           add == post(jf, net.post)
           made == create_collection(jf, server, d.name, d.ids, net.post)
           jf_id == IF existing_id # NoId THEN existing_id ELSE made.id
           srv1 == IF existing_id # NoId
                   THEN (IF add.ok THEN AddItems(server, existing_id, d.ids) ELSE server)
                   ELSE made.server
           has == jf_id # NoId /\ has_primary_image(srv1, jf_id, net.img)
           wants == jf_id # NoId /\ ~has
           p == get_poster(tmdb, cache, world, d.cid, answers, net.poster)
           up == upload_image(jf, net.upload)
           uploads == wants /\ p.bytes
           codes == IF wants THEN p.g.codes ELSE <<>>
           last == ap.i = Len(collections)
       IN  /\ server' = IF uploads /\ up.sent /\ up.ret THEN SetImage(srv1, jf_id) ELSE srv1
           /\ jfSent' = [create |-> jfSent.create
                                      + (IF existing_id = NoId /\ made.sent THEN 1 ELSE 0),
                         add |-> jfSent.add + (IF existing_id # NoId /\ add.sent THEN 1 ELSE 0),
                         upload |-> jfSent.upload + (IF uploads /\ up.sent THEN 1 ELSE 0)]
           /\ display' =
                 [collections_created |->
                     IF existing_id = NoId /\ made.id # NoId
                     THEN Append(display.collections_created, d.name)
                     ELSE display.collections_created,
                  collections_updated |->
                     IF existing_id # NoId THEN Append(display.collections_updated, d.name)
                     ELSE display.collections_updated]
           /\ IF wants
              THEN NoteGetImage("collection", d.cid, p.g, TRUE, p.asks \/ (uploads /\ up.sent),
                                p.asks)
              ELSE /\ UNCHANGED <<cache, lastGet, titleCalls>>
                   /\ saw401' = saw401
                   /\ callsAfter401' = (callsAfter401 \/ saw401)
           /\ ap' = [ap EXCEPT !.i = @ + 1,
                               !.trace = Append(@, d.name),
                               !.failed = \/ @
                                          \/ net.find # "ok"
                                          \/ (~jf.dry_run /\ net.post # "ok"
                                                /\ (existing_id # NoId \/ d.ids # <<>>))]
           /\ pc' = IF last THEN "applied" ELSE pc
    /\ UNCHANGED <<args, varsThreads, tmdb, world, varsResolve, varsMissing, jf>>

(***************************************************************************)
(* apply_collections on its own, run twice: resolved collections, a server *)
(* with or without groupings, in a dry run or not.                         *)
(***************************************************************************)
SecondRun ==
    /\ pc = "applied"
    /\ ap.run = 1
    /\ ap' = [ap EXCEPT !.i = 1, !.run = 2, !.after1 = server, !.trace1 = ap.trace,
                        !.trace = <<>>]
    /\ pc' = "apply"
    /\ UNCHANGED <<args, varsThreads, varsTmdb, varsResolve, varsMissing, jf, server, jfSent, display>>

Grouping(n, name, items) == [Id |-> GId(n), Name |-> name, Items |-> items, image |-> FALSE]

\* A cache file left by an earlier online run: collection 42 with its poster.
PosterCache == set_collection(EmptyCache, 42, _filter_collection(WorldA.coll[42]))

Servers ==
    {<<>>, <<Grouping(1, NameAB, {JfIds[3]})>>,
     <<Grouping(1, NameAB, {}), Grouping(2, NameA, {JfIds[1]})>>}

InitApply ==
    /\ args = ArgsNone
    /\ pc = "apply"
    /\ \E online \in BOOLEAN : tmdb = [api_key |-> online, offline_mode |-> ~online]
    /\ world \in Worlds
    /\ cache \in {EmptyCache, PosterCache}
    /\ IdleTmdb
    /\ movies = TwoMovies
    /\ snapshot = Absent
    /\ tmdb_to_jf = build_tmdb_mapping(movies)
    /\ jobs = <<>>
    /\ pending = {}
    /\ mapping = <<>>
    /\ collections \in ResolvedChoices
    /\ IdleMissing
    /\ \E dry \in BOOLEAN : jf = [dry_run |-> dry]
    /\ server \in Servers
    /\ jfSent = NoneSent
    /\ display = NoDisplay
    /\ ap = [ApIdle EXCEPT !.i = 1]

NextApply ==
    \/ \E net \in NetOutcomes, answers \in AnswersBrief : ApplyStep(net, answers)
    \/ SecondRun

SpecApply == InitApply /\ [][NextApply]_vars

\* C2: with dry_run set in the Jellyfin connector no sequence of
\* apply_collections steps sends a mutating request: no create-grouping
\* POST, no add-items POST, no cover-image upload; the groupings stay as
\* they were.
C2_DryRunSendsNothing ==
    jf.dry_run =>
        /\ jfSent = [create |-> 0, add |-> 0, upload |-> 0]
        /\ server \in Servers

\* A dry run went through all collections, one of them with an existing
\* grouping that lacks a cover.
C2_Witness ==
    /\ jf.dry_run
    /\ pc = "applied"
    /\ display.collections_updated # <<>>
    /\ lastGet.kind = "collection" /\ lastGet.value # NoMeta

Membership(srv) == [n \in 1..Len(srv) |-> [Id |-> srv[n].Id, Name |-> srv[n].Name, Items |-> srv[n].Items]]

\* C8: outside a dry run, with a server that answers every request and
\* whose add-items is a set union, a second run of apply_collections over
\* the same collections leaves the groupings and their membership as the
\* first run left them: no grouping is added.
C8_Idempotent ==
    (~jf.dry_run /\ ap.run = 2 /\ pc = "applied" /\ ~ap.failed) =>
        Membership(server) = Membership(ap.after1)

\* Two runs against an empty server: the first creates the groupings.
C8_Witness ==
    /\ ~jf.dry_run /\ ap.run = 2 /\ pc = "applied" /\ ~ap.failed
    /\ Len(collections) = 2
    /\ Len(server) = 2
    /\ Len(display.collections_created) = 2
    /\ Len(display.collections_updated) = 2

(***************************************************************************)
(* main: the run from the parsed flags to the pruned cache.  The           *)
(* --rebuild-cache branch is left out.                                     *)
(***************************************************************************)
jellyseer_enabled == args.jellyseer \/ args.jellyseer_send

\* get_env_or_die, the Jellyseerr credentials, pick_user_id; then the
\* library is listed and the identity map built.
MainStart ==
    /\ pc = "start"
    /\ IF ~args.jf_env \/ (jellyseer_enabled /\ ~args.js_env) \/ ~args.has_user
       THEN /\ pc' = "exit1"
            /\ tmdb_to_jf' = tmdb_to_jf
       ELSE /\ pc' = IF args.has_tmdb_key THEN "build_online" ELSE "build_offline"
            /\ tmdb_to_jf' = build_tmdb_mapping(movies)
    /\ UNCHANGED <<args, varsThreads, varsTmdb, varsMissing, varsApply, movies, snapshot, jobs, pending,
                   mapping, collections>>

\* The ids of the missing movies of all collections, each once, in order.
RECURSIVE Unique(_)
Unique(seq) ==
    IF seq = <<>> THEN <<>>
    ELSE LET before == Unique(SubSeq(seq, 1, Len(seq) - 1))
         IN  IF seq[Len(seq)] \in Range(before) THEN before ELSE Append(before, seq[Len(seq)])

AllMissingIds(cols) == Unique(Ids(Flatten([i \in 1..Len(cols) |-> cols[i].missing_movies])))

\* batch_prefetch_missing_tmdb up to the submission of its jobs: the ids it
\* returns and the ids it fetches.
Prefetch(cols, t, c) ==
    LET ids == AllMissingIds(cols)
    IN  [missing_ids |-> ids,
         jobs |-> IF t.offline_mode \/ ~t.api_key THEN <<>>
                  ELSE SelectSeq(ids, LAMBDA mid : get_movie(c, mid) = NoMeta)]

\* main between the resolver and apply_collections: with a Jellyseerr flag
\* and collections, the prefetch (with a TMDb key) and process_missing, whose
\* dry_run is "not args.jellyseer_send".
MainAfterResolve ==
    /\ pc = "resolved"
    /\ IF jellyseer_enabled /\ collections # <<>>
       THEN LET pf == Prefetch(collections, tmdb, cache)
            IN  /\ pm' = [PmIdle EXCEPT !.client = TRUE, !.dry_run = ~args.jellyseer_send]
                /\ missing_ids' = IF args.has_tmdb_key THEN pf.missing_ids ELSE <<>>
                /\ pending' = IF args.has_tmdb_key THEN Range(pf.jobs) ELSE {}
                /\ pc' = IF args.has_tmdb_key /\ pf.jobs # <<>> THEN "prefetch" ELSE "pm_call"
                /\ ap' = ap
       ELSE /\ UNCHANGED <<pm, missing_ids, pending>>
            /\ ap' = [ap EXCEPT !.i = 1]
            /\ pc' = IF collections = <<>> THEN "applied" ELSE "apply"
    /\ UNCHANGED <<args, varsThreads, varsTmdb, movies, snapshot, tmdb_to_jf, jobs, mapping, collections,
                   missing_requests, jsRequested, jsCalls, jf, server, jfSent, display>>

\* A prefetch future completes.
PrefetchDone(mid, answers) ==
    /\ pc = "prefetch"
    /\ mid \in pending
    /\ NoteGet("movie", mid, get(tmdb, cache, world, "movie", mid, answers))
    /\ pending' = pending \ {mid}
    /\ pc' = IF pending = {mid} THEN "pm_call" ELSE pc
    /\ UNCHANGED <<args, varsThreads, tmdb, world, varsMissing, varsApply, movies, snapshot, tmdb_to_jf,
                   jobs, mapping, collections>>

\* process_missing has returned: apply_collections is called.
MainApply ==
    /\ pc = "pm_done"
    /\ ap' = [ap EXCEPT !.i = 1]
    /\ pc' = IF collections = <<>> THEN "applied" ELSE "apply"
    /\ UNCHANGED <<args, varsThreads, varsTmdb, varsResolve, varsMissing, jf, server, jfSent, display>>

\* The end of main: the cache is pruned.
MainPrune ==
    /\ pc = "applied"
    /\ cache' = prune_movies(cache, DOMAIN tmdb_to_jf \cup Range(missing_ids))
    /\ pc' = "done"
    /\ UNCHANGED <<args, varsThreads, tmdb, world, lastGet, titleCalls, saw401, callsAfter401,
                   varsResolve, varsMissing,
                   varsApply>>

\* What the provider answers in a run: data at once, 401 and then data,
\* errors only.
MainAnswers ==
    {[a \in 1..attempts |-> 200], [a \in 1..attempts |-> IF a = 1 THEN 401 ELSE 200],
     [a \in 1..attempts |-> 500]}

MainNet == {net \in NetOutcomes : \A f \in NetFields \ {"find"} : net[f] = "ok"}

\* The libraries of a run: none, two movies, three with two copies of 11.
MainLibraries ==
    {<<>>, TwoMovies,
     Append(TwoMovies, [Id |-> JfIds[3], ProviderIds |-> [Tmdb |-> <<"1", "1">>]])}

Flags ==
    {a \in [dry_run : BOOLEAN, jellyseer : BOOLEAN, jellyseer_send : BOOLEAN,
            has_tmdb_key : BOOLEAN, jf_env : BOOLEAN, js_env : BOOLEAN, has_user : BOOLEAN] :
        Cardinality({f \in {"jf_env", "js_env", "has_user"} : ~a[f]}) <= 1}

StaleCache == set_movie(EmptyCache, 12, _filter_movie(WorldA.title[12]))

Init ==
    /\ args \in Flags
    /\ pc = "start"
    /\ tmdb = [api_key |-> args.has_tmdb_key, offline_mode |-> ~args.has_tmdb_key]
    /\ world \in Worlds
    /\ cache \in {EmptyCache, StaleCache}
    /\ IdleTmdb
    /\ movies \in MainLibraries
    /\ snapshot \in IF args.has_tmdb_key THEN {Absent}
                    ELSE {Absent, <<SnapEntry(42, NameA, <<10, 11, 13>>)>>}
    /\ tmdb_to_jf = [k \in {} |-> <<>>]
    /\ IdleResolve
    /\ IdleMissing
    /\ jf = [dry_run |-> args.dry_run]
    /\ server \in {<<>>, <<Grouping(1, NameA, {JfIds[1]})>>}
    /\ jfSent = NoneSent
    /\ display = NoDisplay
    /\ ap = ApIdle

Next ==
    \/ MainStart
    \/ StartOnline
    \/ \E j \in pending, answers \in MainAnswers : TitleDone(j, answers)
    \/ \E cid \in pending, answers \in MainAnswers : CollDone(cid, answers)
    \/ BuildOffline
    \/ MainAfterResolve
    \/ \E mid \in pending, answers \in MainAnswers : PrefetchDone(mid, answers)
    \/ PMStart
    \/ \E answers \in MainAnswers, req \in Outcomes : PMStep(answers, "ok", "ok", req)
    \/ MainApply
    \/ \E net \in MainNet, answers \in MainAnswers : ApplyStep(net, answers)
    \/ MainPrune

Spec == Init /\ [][Next]_vars

(***************************************************************************)
(* Properties of the whole run.                                            *)
(***************************************************************************)
\* C3: in a dry run (--no-dryrun not given) request_movie is never invoked,
\* whatever the other flags are.  main hands process_missing
\* "not args.jellyseer_send" as its dry_run, so --jellyseer-send submits
\* requests in a dry run: the statement does not hold of the code.
C3_DryRunNoSubmit == args.dry_run => jsCalls.request = <<>>

\* The cache entry a fetch of (kind, id) looks at.
EntryOf(c, kind, id) == IF kind = "movie" THEN get_movie(c, id) ELSE get_collection(c, id)

\* A step in which TMDb.get was called, with the entry of its key before and
\* after the call.
GetStep == lastGet' # lastGet
EntryBefore == EntryOf(cache, lastGet'.kind, lastGet'.id)
EntryAfter == EntryOf(cache', lastGet'.kind, lastGet'.id)

\* On a hit the cached value is returned and no remote call is made.
HitRule ==
    EntryBefore # NoMeta =>
        lastGet'.hit /\ lastGet'.calls = 0 /\ lastGet'.value = EntryBefore /\ EntryAfter = EntryBefore

\* A miss that returns a value made a remote call, returns the normalized
\* payload and has written it under the id, so the next fetch of the id is a
\* hit.
WriteRule ==
    EntryBefore = NoMeta /\ lastGet'.value # NoMeta =>
        /\ lastGet'.calls >= 1
        /\ lastGet'.value = (IF lastGet'.kind = "movie" THEN _filter_movie(world.title[lastGet'.id])
                             ELSE _filter_collection(world.coll[lastGet'.id]))
        /\ EntryAfter = lastGet'.value

\* C9 as stated: every miss issues a remote call.  In offline mode a miss
\* returns absent with no remote call, so this is violated.
C9_MissAlwaysCalls ==
    [][GetStep => HitRule /\ WriteRule /\ (EntryBefore = NoMeta => lastGet'.calls >= 1)]_vars

\* C9, amended: TMDb.get consults the cache first; a hit returns the cached
\* value with no remote call; a miss with offline_mode false issues a remote
\* call and, when it succeeds, writes the normalized payload under the id
\* before returning it; a miss with offline_mode true returns absent, calls
\* nothing and writes nothing.
C9_CacheThrough ==
    [][GetStep =>
         /\ HitRule
         /\ WriteRule
         /\ (EntryBefore = NoMeta /\ ~tmdb.offline_mode => ~lastGet'.hit /\ lastGet'.calls >= 1)
         /\ (EntryBefore = NoMeta /\ tmdb.offline_mode =>
                lastGet'.calls = 0 /\ lastGet'.value = NoMeta /\ EntryAfter = NoMeta)]_vars

\* A collection fetched from the provider earlier in the run is served from
\* the cache: the second fetch of the id.
C9_Witness ==
    /\ lastGet.kind = "collection"
    /\ lastGet.hit
    /\ lastGet.calls = 0
    /\ lastGet.value = get_collection(cache, lastGet.id)

\* C10: after a 401 answer of the provider nothing more is requested: no
\* retry, no further fetch, no Jellyseerr or Jellyfin call.  _request catches
\* the RuntimeError it raises on 401 and goes on to the next attempt, so the
\* statement does not hold of the code.
C10_AbortOn401 == saw401 => ~callsAfter401

(***************************************************************************)
(* Offline mode of the connector.                                          *)
(***************************************************************************)
\* C11: with offline_mode set every fetch (title, collection, poster)
\* returns absent, whatever the cache holds, and makes no network call.
\* TMDb.get looks into the cache before _request tests offline_mode, so a
\* cached collection is returned, and get_poster then requests its image
\* without any test of offline_mode: the statement does not hold of the code.
C11_OfflineFetchAbsent ==
    tmdb.offline_mode => lastGet.value = NoMeta /\ lastGet.calls = 0 /\ ~lastGet.image

(***************************************************************************)
(* The order of traversal: the program run twice in a dry run over the     *)
(* same library, an empty cache and a provider that answers every request. *)
(* ap.trace holds the names apply_collections looked up, in order.         *)
(***************************************************************************)
FourMovies ==
    TwoMovies \o <<[Id |-> JfIds[3], ProviderIds |-> [tmdb |-> <<"1", "2">>]],
                   [Id |-> JfIds[4], ProviderIds |-> [tmdb |-> <<"1", "2">>]]>>

Ok200 == [a \in 1..attempts |-> 200]

AllOk == [f \in NetFields |-> "ok"]

\* The program is started again: the cache file is as it was before the
\* first run.
RunAgain ==
    /\ pc = "applied"
    /\ ap.run = 1
    /\ ap' = [ap EXCEPT !.i = 0, !.run = 2, !.after1 = server, !.trace1 = ap.trace,
                        !.trace = <<>>, !.result1 = collections]
    /\ pc' = "build_online"
    /\ cache' = EmptyCache
    /\ lastGet' = NoGet
    /\ titleCalls' = NoTitleCalls
    /\ jobs' = <<>>
    /\ pending' = {}
    /\ mapping' = <<>>
    /\ collections' = <<>>
    /\ UNCHANGED <<args, varsThreads, tmdb, world, saw401, callsAfter401, movies, snapshot, tmdb_to_jf,
                   varsMissing, jf, server, jfSent, display>>

InitOrder ==
    /\ args = ArgsNone
    /\ pc = "build_online"
    /\ tmdb = [api_key |-> TRUE, offline_mode |-> FALSE]
    /\ world \in Worlds \cup {WorldD}
    /\ cache = EmptyCache
    /\ IdleTmdb
    /\ movies \in {TwoMovies, FourMovies}
    /\ snapshot = Absent
    /\ tmdb_to_jf = build_tmdb_mapping(movies)
    /\ IdleResolve
    /\ IdleMissing
    /\ jf = [dry_run |-> TRUE]
    /\ server \in Servers
    /\ jfSent = NoneSent
    /\ display = NoDisplay
    /\ ap = ApIdle

NextOrder ==
    \/ StartOnline
    \/ \E j \in pending : TitleDone(j, Ok200)
    \/ \E cid \in pending : CollDone(cid, Ok200)
    \/ MainAfterResolve
    \/ ApplyStep(AllOk, Ok200)
    \/ RunAgain

SpecOrder == InitOrder /\ [][NextOrder]_vars

\* C12: apply_collections traverses the collections in an order that does
\* not depend on the completion order of the fetches: the second of two runs
\* over the same library, cache and provider data looks the groupings up in
\* the order of the first.  The descriptors are stored as the collection
\* futures complete and traversed in that order, without any sort, so the
\* statement does not hold of the code.
C12_SameOrder == (ap.run = 2 /\ pc = "applied") => ap.trace = ap.trace1

\* The sanitized form of a name: the characters Jellyfin does not take in a
\* name are dropped and runs of blanks become one blank.
IllegalChars == {":", "<", ">", "\"", "/", "\\", "|", "?", "*"}

RECURSIVE Collapse(_)
Collapse(name) ==
    IF Len(name) < 2 THEN name
    ELSE LET rest == Collapse(Tail(name))
         IN  IF Head(name) = " " /\ Head(rest) = " " THEN rest ELSE <<Head(name)>> \o rest

Sanitize(name) == Collapse(SelectSeq(name, LAMBDA ch : ch \notin IllegalChars))

\* C13: the name apply_collections hands to the lookup and to the creation
\* of a grouping is the sanitized form of the display name.  No function of
\* the program sanitizes a name: find_collection and create_collection get
\* data["name"] as the provider gave it, so the statement does not hold of
\* the code.
C13_SanitizedNames == \A i \in 1..Len(ap.trace) : ap.trace[i] = Sanitize(ap.trace[i])

\* C14: in a dry run the creation of a grouping yields a synthetic id, so
\* that a collection without a grouping still has its creation recorded (and
\* the poster steps reached).  Jellyfin.post returns None in a dry run and
\* create_collection passes that on: apply_collections records nothing and
\* goes on to the next collection, so the statement does not hold of the
\* code.
C14_DryRunCreates ==
    (jf.dry_run /\ pc = "applied" /\ ap.run = 1 /\ ~ap.failed) =>
        \A i \in 1..Len(collections) :
            (collections[i].ids # <<>> /\ find_collection(server, collections[i].name, "ok") = NoId)
                => collections[i].name \in Range(display.collections_created)

(***************************************************************************)
(* prune_movies on its own: the end of a run whose last fetch wrote a      *)
(* title, over every cache of the four titles, every identity map and      *)
(* several lists of missing ids.                                           *)
(***************************************************************************)
CacheOf(S, colls) ==
    [movie |-> [k \in {Str(i) : i \in S} |->
                   _filter_movie(WorldA.title[CHOOSE i \in S : Str(i) = k])],
     collection |-> colls]

InitPrune ==
    /\ args = ArgsNone
    /\ pc = "applied"
    /\ tmdb = [api_key |-> TRUE, offline_mode |-> FALSE]
    /\ world = WorldA
    /\ \E S \in SUBSET TitleIds, colls \in {EmptyDict, PosterCache.collection} :
          cache = CacheOf(S, colls)
    /\ \E m \in TitleIds :
          /\ get_movie(cache, m) # NoMeta
          /\ lastGet = [kind |-> "movie", id |-> m, hit |-> FALSE, calls |-> 1,
                        value |-> get_movie(cache, m), image |-> FALSE]
          /\ titleCalls = Bump(NoTitleCalls, m)
    /\ saw401 = FALSE
    /\ callsAfter401 = FALSE
    /\ IdleThreads
    /\ movies = <<>>
    /\ snapshot = Absent
    /\ \E D \in SUBSET {10, 11, 12} : tmdb_to_jf = [k \in D |-> <<JfIds[1]>>]
    /\ IdleResolve
    /\ missing_ids \in {<<>>, <<13>>, <<12, 13>>}
    /\ pm = PmIdle
    /\ missing_requests = <<>>
    /\ jsRequested = {}
    /\ jsCalls = NoCalls
    /\ IdleApply

NextPrune == MainPrune

SpecPrune == InitPrune /\ [][NextPrune]_vars

\* C15: prune_movies(validIds) removes exactly the title entries whose key
\* is not the string of an id in validIds, keeps the others with their
\* payload, and leaves the collection entries as they are.
C15_PruneExact ==
    [][(pc = "applied" /\ pc' = "done") =>
         LET valid == {Str(v) : v \in DOMAIN tmdb_to_jf \cup Range(missing_ids)}
         IN  /\ DOMAIN cache'.movie = {k \in DOMAIN cache.movie : k \in valid}
             /\ \A k \in DOMAIN cache'.movie : cache'.movie[k] = cache.movie[k]
             /\ cache'.collection = cache.collection]_vars

\* The title the last fetch wrote has been pruned, title 10 and the
\* collection entry are still there.
C15_Witness ==
    /\ pc = "done"
    /\ lastGet.id = 13
    /\ get_movie(cache, 13) = NoMeta
    /\ get_movie(cache, 10) = _filter_movie(WorldA.title[10])
    /\ get_collection(cache, 42) # NoMeta

\* C16: the prune at the end of main removes only title entries whose id is
\* neither a key of the identity map nor the id of a missing movie of a
\* collection resolved in this run, in every mode.  main fills missing_ids
\* only under "jellyseer_enabled and collections" and "has_tmdb_key"; in
\* the other modes the entries of the missing movies are pruned, those the
\* Jellyseerr fallback has just written included, so the statement does not
\* hold of the code.
C16_PruneKeepsMissing ==
    [][(pc = "applied" /\ pc' = "done") =>
         \A k \in DOMAIN cache.movie \ DOMAIN cache'.movie :
            k \notin {Str(v) : v \in DOMAIN tmdb_to_jf \cup Range(AllMissingIds(collections))}]_vars

(***************************************************************************)
(* build_tmdb_mapping on its own: the libraries of up to MaxMovies items   *)
(* over every shape of ProviderIds.                                        *)
(***************************************************************************)
MapChoices ==
    {[Tmdb |-> <<"1", "0">>], [Tmdb |-> <<"1", "1">>], [tmdb |-> <<"1", "0">>],
     [Tmdb |-> <<"x">>], [Tmdb |-> <<"0">>], [Imdb |-> <<"t">>],
     [Tmdb |-> <<>>, tmdb |-> <<"1", "1">>]}

MapLibraries ==
    {[i \in 1..Len(ps) |-> [Id |-> JfIds[i], ProviderIds |-> ps[i]]] :
        ps \in SeqsUpTo(MapChoices, MaxMovies)}

InitMapping ==
    /\ args = ArgsNone
    /\ pc = "start"
    /\ tmdb = [api_key |-> TRUE, offline_mode |-> FALSE]
    /\ world = WorldA
    /\ cache = EmptyCache
    /\ IdleTmdb
    /\ movies \in MapLibraries
    /\ snapshot = Absent
    /\ tmdb_to_jf = [k \in {} |-> <<>>]
    /\ IdleResolve
    /\ IdleMissing
    /\ IdleApply

NextMapping == MainStart

SpecMapping == InitMapping /\ [][NextMapping]_vars

\* The value an item carries under a recognized key, <<>> without one.
RecognizedValue(item) ==
    LET p == item.ProviderIds
    IN  IF "Tmdb" \in DOMAIN p /\ p["Tmdb"] # <<>> THEN p["Tmdb"]
        ELSE IF "tmdb" \in DOMAIN p THEN p["tmdb"]
        ELSE <<>>

Coerces(item) == IsIntegerText(RecognizedValue(item))

CoercesNonZero(item) == Coerces(item) /\ IntegerOf(RecognizedValue(item)) # 0

\* The map in which the items that count are listed under their external
\* id, in library order.
MappingOf(ms, Counts(_)) ==
    [k \in {IntegerOf(RecognizedValue(ms[i])) : i \in {j \in 1..Len(ms) : Counts(ms[j])}} |->
        LET listed == SelectSeq(ms, LAMBDA m : Counts(m) /\ IntegerOf(RecognizedValue(m)) = k)
        IN  [n \in 1..Len(listed) |-> listed[n].Id]]

\* C17 as stated: every item whose value coerces to an integer is listed.
\* An item whose value is "0" coerces and is dropped by "if not tmdb_id".
C17_EveryIntegerListed == pc # "start" => tmdb_to_jf = MappingOf(movies, Coerces)

\* C17, amended: an item without a recognized key, or whose value does not
\* coerce to an integer, or coerces to 0, contributes no entry; every other
\* item's local id appears exactly once, under its integer external id, and
\* the items that share an external id are listed together in library order.
C17_Mapping == pc # "start" => tmdb_to_jf = MappingOf(movies, CoercesNonZero)

\* Two items share id 10 under the two spellings of the key, a third
\* carries "0".
C17_Witness ==
    /\ pc # "start"
    /\ Len(movies) = 3
    /\ movies[1].ProviderIds = [tmdb |-> <<"1", "0">>]
    /\ movies[2].ProviderIds = [Tmdb |-> <<"0">>]
    /\ movies[3].ProviderIds = [Tmdb |-> <<"1", "0">>]
    /\ tmdb_to_jf = [k \in {10} |-> <<JfIds[1], JfIds[3]>>]

(***************************************************************************)
(* Fatal conditions.                                                       *)
(***************************************************************************)
\* C18: a fatal condition (credentials missing, no snapshot file in offline
\* mode, no Jellyfin user) ends the run before anything was changed: when
\* the run exits no create, add or upload was sent to Jellyfin, nothing was
\* asked of or submitted to Jellyseerr, no fetch was made, and the exiting
\* step leaves the cache and the server as they are.
C18_FatalBeforeMutation ==
    /\ [](pc = "exit1" =>
            /\ jfSent = NoneSent
            /\ jsCalls = NoCalls
            /\ missing_requests = <<>>
            /\ lastGet = NoGet
            /\ display = NoDisplay)
    /\ [][pc' = "exit1" => (cache' = cache /\ server' = server /\ jsRequested' = jsRequested)]_vars

\* An offline run with Jellyseerr enabled, a library and a stale cache found
\* no snapshot file.
C18_Witness ==
    /\ pc = "exit1"
    /\ ~args.has_tmdb_key /\ args.jf_env /\ args.js_env /\ args.has_user
    /\ args.jellyseer_send /\ ~args.dry_run
    /\ snapshot = Absent
    /\ movies # <<>>
    /\ cache = StaleCache

(***************************************************************************)
(* Failing fetches and failing Jellyseerr calls.                           *)
(***************************************************************************)
\* C19: a failed fetch does not end the run, and a collection whose fetch
\* failed is absent from the resolved result.  TMDb.get returns None for a
\* failed fetch and build_collections_online goes on with
\* "future.result() or {}": the descriptor is stored all the same, with no
\* canonical members, so the statement does not hold of the code.
C19_FailedCollectionAbsent ==
    (pc \in {"colls", "resolved"} /\ lastGet.kind = "collection" /\ lastGet.value = NoMeta)
        => ~HasCid(collections, lastGet.id)

\* C20: outside a dry run, an error of the already-requested check of an
\* eligible movie reads as "not found" and the request is submitted; a
\* failed submission adds nothing to the count and to the logged requests;
\* neither ends process_missing: the next movie is evaluated, and the
\* function returns after the last with every movie counted in
\* total_missing.
C20_ConnectorErrors ==
    /\ [][(pc = "pm_loop" /\ ~pm.dry_run /\ pm'.k = pm.k + 1) =>
            LET pair == Pairs(collections)[pm.k]
                id == pair.movie.id
                eligible == EligibleMeta(get_movie(cache', id))
            IN  /\ eligible => jsCalls'.check = Append(jsCalls.check, id)
                /\ pm'.last.chk = "fail" =>
                       jsCalls'.request = Append(jsCalls.request, id) /\ pm'.last.req # "none"
                /\ pm'.last.req = "fail" =>
                       /\ pm'.count = pm.count
                       /\ missing_requests' = missing_requests
                       /\ jsRequested' = jsRequested
                /\ pm'.last.req = "ok" =>
                       /\ pm'.count = pm.count + 1
                       /\ missing_requests' =
                             Append(missing_requests, [tmdb_id |-> id, cname |-> pair.cname])
                /\ pm'.total_missing = pm.total_missing + 1
                /\ pc' = IF pm.k < Len(Pairs(collections)) THEN "pm_loop" ELSE "pm_done"]_vars
    /\ [](pm.ret = "full" => pm.total_missing = Len(Pairs(collections)))

\* A run over three missing movies: a submission failed, and the last
\* movie, whose check failed, was requested and counted.
C20_Witness ==
    /\ pm.ret = "full"
    /\ ~pm.dry_run
    /\ Len(jsCalls.request) = 3
    /\ pm.count = 2
    /\ pm.last = [chk |-> "fail", req |-> "ok"]

(***************************************************************************)
(* The result of the online resolver and the order of completion.          *)
(***************************************************************************)
\* The resolved collections as a set: per collection id the name, the set
\* of local ids, the canonical members and the missing movies.
ResultSet(cols) ==
    {[cid |-> cols[i].cid, name |-> cols[i].name, ids |-> Range(cols[i].ids),
      all_tmdb_ids |-> cols[i].all_tmdb_ids, missing_movies |-> cols[i].missing_movies] :
        i \in 1..Len(cols)}

\* C21: with the library and the provider's data fixed, the result set of
\* build_collections_online is the same whatever the order in which the
\* title and collection futures complete: the second of two runs resolves
\* the collections the first resolved.
C21_SameResultSet ==
    (ap.run = 2 /\ pc \in {"resolved", "apply", "applied"}) =>
        ResultSet(collections) = ResultSet(ap.result1)

\* Two runs that resolved two collections in different orders.
C21_Witness ==
    /\ ap.run = 2
    /\ pc = "applied"
    /\ Len(collections) = 2
    /\ Len(ap.result1) = 2
    /\ collections[1].cid = ap.result1[2].cid
    /\ collections # ap.result1

\* C22: once a fetch that went to the provider has completed, with a payload
\* or with the failure of every attempt, the cache holds an entry under its
\* (kind, id), so that no later fetch of the id makes a remote call.
C22_EntryAfterFetch ==
    [][GetStep /\ lastGet'.calls >= 1 => EntryAfter # NoMeta]_vars

(***************************************************************************)
(* The worker pool: the threads of a ThreadPoolExecutor inside TMDb.get,   *)
(* step by step, and the main thread's get_poster after the pool is done.  *)
(***************************************************************************)
Workers == 1..MaxWorkers
Main == 0

\* What an attempt of _request meets: data, 429, or an exception (an HTTP
\* error or the timeout of requests.get).
PoolCodes == {200, 429, 500}

\* The seconds the server names in Retry-After: 1, or none (the default 3).
RetryAfters == {ErrorSleep, RetryAfterDefault}

\* The file while it is open for writing and nothing is written, and a file
\* whose content is no JSON document.
Truncated == [text |-> "empty"]
Garbage == [text |-> "garbage"]

varsPoolRest ==
    <<args, pc, tmdb, world, lastGet, titleCalls, saw401, callsAfter401, varsResolve, varsMissing, varsApply>>

\* _wait_interval up to its sleep: the time at which the sleep ends.
WakeAt(now, last) ==
    IF now - last < CALL_INTERVAL_SECONDS THEN now + (CALL_INTERVAL_SECONDS - (now - last))
    ELSE now

\* 'with tmdb_lock' with a slip: the lock is taken whoever holds it.
CanAcquire_NoLock(lock) == TRUE

\* 'with tmdb_lock:' is entered when the lock is free.
CanAcquire(lock) == lock = 0

\* The exit of 'with tmdb_lock' with a slip: the lock stays held.
Unlock_Never(lock, t) == lock

\* The exit of 'with tmdb_lock', by return, continue or exception.
Unlock(lock, t) == IF lock = t THEN 0 ELSE lock

\* A worker of the pool takes a submitted call of tmdb.get.
Take(t, cid) ==
    /\ t \in Workers
    /\ th[t].pc = "idle"
    /\ cid \in DOMAIN futures
    /\ futures[cid] = "queued"
    /\ futures' = [futures EXCEPT ![cid] = "running"]
    /\ th' = [th EXCEPT ![t] = [NoThread EXCEPT !.pc = "get", !.id = cid]]
    /\ UNCHANGED <<cache, tmdb_lock, _last_call_ts, file, varsPoolRest>>

PoolDone == \A c \in DOMAIN futures : futures[c] \in {"data", "absent"}

\* The pool is done ('with ThreadPoolExecutor' has returned) and the main
\* thread, in apply_collections, calls tmdb.get_poster(cid).
TakeMain(cid) ==
    /\ th[Main].pc = "idle"
    /\ th[Main].ret = "none"
    /\ PoolDone
    /\ \A t \in Workers : th[t].pc = "idle"
    /\ cid \in DOMAIN futures
    /\ th' = [th EXCEPT ![Main] = [NoThread EXCEPT !.pc = "get", !.id = cid]]
    /\ UNCHANGED <<cache, tmdb_lock, _last_call_ts, futures, file, varsPoolRest>>

\* The thread leaves TMDb.get with ret: a worker's future is done, the main
\* thread goes on in get_poster.
Leave(t, ret) ==
    IF t = Main
    THEN /\ th' = [th EXCEPT ![t].ret = ret,
                             ![t].pc = IF ret = "data" /\ ~Falsy(get_collection(cache, th[t].id).poster_path)
                                       THEN "poster" ELSE "end"]
         /\ UNCHANGED futures
    ELSE /\ th' = [th EXCEPT ![t].ret = ret, ![t].pc = "idle"]
         /\ futures' = [futures EXCEPT ![th[t].id] = ret]

\* TMDb.get: the cache is read; a hit returns.
GetCheck(t) ==
    /\ th[t].pc = "get"
    /\ IF get_collection(cache, th[t].id) # NoMeta
       THEN /\ Leave(t, "data")
       ELSE /\ th' = [th EXCEPT ![t].pc = "acquire"]
            /\ UNCHANGED futures
    /\ UNCHANGED <<cache, tmdb_lock, _last_call_ts, file, varsPoolRest>>

\* _request: 'with tmdb_lock' is entered and _wait_interval reads the clock.
Acquire(t) ==
    /\ th[t].pc = "acquire"
    /\ CanAcquire(tmdb_lock)
    /\ tmdb_lock' = t
    /\ th' = [th EXCEPT ![t].pc = "wait", ![t].attempt = @ + 1,
                        ![t].wake = WakeAt(0, _last_call_ts)]
    /\ UNCHANGED <<cache, _last_call_ts, futures, file, varsPoolRest>>

\* _wait_interval has slept and stamps _last_call_ts; requests.get starts.
Stamp(t) ==
    /\ th[t].pc \in {"wait", "poster_wait"}
    /\ th[t].wake <= 0
    /\ _last_call_ts' = 0
    /\ th' = [th EXCEPT ![t].pc = IF th[t].pc = "wait" THEN "call" ELSE "poster_call",
                        ![t].gap = 0 - _last_call_ts]
    /\ UNCHANGED <<cache, tmdb_lock, futures, file, varsPoolRest>>

\* requests.get returns or raises: 200 leaves the lock with the data, 429
\* sleeps Retry-After inside the lock, anything else leaves the lock by the
\* exception and sleeps a second.
Respond(t, code, retry_after) ==
    /\ th[t].pc = "call"
    /\ th' = [th EXCEPT ![t].n429 = IF code = 429 THEN @ + 1 ELSE @,
                        ![t].gap = 0,
                        ![t].pc = IF code = 200 THEN "set"
                                  ELSE IF code = 429 THEN "sleep429" ELSE "sleep_err",
                        ![t].wake = IF code = 200 THEN 0
                                    ELSE IF code = 429 THEN retry_after
                                    ELSE ErrorSleep]
    /\ tmdb_lock' = IF code = 429 THEN tmdb_lock ELSE Unlock(tmdb_lock, t)
    /\ UNCHANGED <<cache, _last_call_ts, futures, file, varsPoolRest>>

\* The sleep is over: 'continue' leaves the lock; the next attempt, or None
\* after the last one.
Wake(t) ==
    /\ th[t].pc \in {"sleep429", "sleep_err"}
    /\ th[t].wake <= 0
    /\ tmdb_lock' = Unlock(tmdb_lock, t)
    /\ IF th[t].attempt < attempts
       THEN /\ th' = [th EXCEPT ![t].pc = "acquire"]
            /\ UNCHANGED futures
       ELSE Leave(t, "absent")
    /\ UNCHANGED <<cache, _last_call_ts, file, varsPoolRest>>

\* cache.set_collection: self.data["collection"][str(cid)] = payload
SetMem(t) ==
    /\ th[t].pc = "set"
    /\ cache' = set_collection(cache, th[t].id, _filter_collection(world.coll[th[t].id]))
    /\ th' = [th EXCEPT ![t].pc = "save_open"]
    /\ UNCHANGED <<tmdb_lock, _last_call_ts, futures, file, varsPoolRest>>

\* save: self.path.open("w") truncates the file.
SaveOpen(t) ==
    /\ th[t].pc = "save_open"
    /\ file' = Truncated
    /\ th' = [th EXCEPT ![t].pc = "save_dump"]
    /\ UNCHANGED <<cache, tmdb_lock, _last_call_ts, futures, varsPoolRest>>

\* save: json.dump(self.data, f) fills the buffer of f; a thread that inserts
\* a key while the dict is iterated makes it raise, and the exception is
\* passed over with a part of the text written.
SaveDump(t) ==
    /\ th[t].pc = "save_dump"
    /\ \E b \in {cache} \cup (IF \E u \in Workers \ {t} : th[u].pc = "set" THEN {Garbage} ELSE {}) :
          th' = [th EXCEPT ![t].pc = "save_close", ![t].buf = b]
    /\ UNCHANGED <<cache, tmdb_lock, _last_call_ts, futures, file, varsPoolRest>>

\* The text of buf written from offset 0 over what the file holds: a longer
\* document replaces a shorter one, a shorter one leaves the tail of the
\* longer.
Written(f, buf) ==
    IF buf = Garbage THEN {Garbage}
    ELSE IF f = Truncated THEN {buf}
    ELSE IF f = Garbage THEN {buf, Garbage}
    ELSE IF DOMAIN f.collection \subseteq DOMAIN buf.collection THEN {buf}
    ELSE {Garbage}

\* save: the 'with' of the file is left, the buffer is flushed and the file
\* closed; set_collection returns and TMDb.get returns the payload.
SaveClose(t) ==
    /\ th[t].pc = "save_close"
    /\ file' \in Written(file, th[t].buf)
    /\ Leave(t, "data")
    /\ UNCHANGED <<cache, tmdb_lock, _last_call_ts, varsPoolRest>>

\* get_poster: self._wait_interval() reads the clock, outside tmdb_lock.
PosterWait ==
    /\ th[Main].pc = "poster"
    /\ th' = [th EXCEPT ![Main].pc = "poster_wait", ![Main].wake = WakeAt(0, _last_call_ts)]
    /\ UNCHANGED <<cache, tmdb_lock, _last_call_ts, futures, file, varsPoolRest>>

\* get_poster: requests.get(url, timeout=30) of the image returns or raises.
PosterRespond ==
    /\ th[Main].pc = "poster_call"
    /\ th' = [th EXCEPT ![Main].pc = "end", ![Main].gap = 0]
    /\ UNCHANGED <<cache, tmdb_lock, _last_call_ts, futures, file, varsPoolRest>>

\* The threads that sleep, and the nearest end of a sleep.
Sleepers ==
    {t \in 0..MaxWorkers :
        th[t].pc \in {"wait", "poster_wait", "sleep429", "sleep_err"} /\ th[t].wake > 0}

Nearest == CHOOSE d \in {th[t].wake : t \in Sleepers} : \A t \in Sleepers : d <= th[t].wake

\* Time passes, up to the end of the nearest sleep: every time kept moves
\* into the past by as much.
Tick ==
    /\ Sleepers # {}
    /\ th' = [t \in 0..MaxWorkers |->
                IF t \in Sleepers THEN [th[t] EXCEPT !.wake = @ - Nearest] ELSE th[t]]
    /\ _last_call_ts' = IF _last_call_ts - Nearest < LongAgo THEN LongAgo
                        ELSE _last_call_ts - Nearest
    /\ UNCHANGED <<cache, tmdb_lock, futures, file, varsPoolRest>>

\* The collection pool of build_collections_online: tmdb.get is submitted
\* for every collection id.
InitThreads ==
    /\ args = ArgsNone
    /\ pc = "pool"
    /\ tmdb = [api_key |-> TRUE, offline_mode |-> FALSE]
    /\ world = WorldC
    /\ cache \in {EmptyCache, set_collection(EmptyCache, 42, _filter_collection(world.coll[42]))}
    /\ lastGet = NoGet
    /\ titleCalls = NoTitleCalls
    /\ saw401 = FALSE
    /\ callsAfter401 = FALSE
    /\ th = [t \in 0..MaxWorkers |-> NoThread]
    /\ tmdb_lock = 0
    /\ _last_call_ts = LongAgo
    /\ futures = [c \in CollIds |-> "queued"]
    /\ file = cache
    /\ movies = TwoMovies
    /\ snapshot = Absent
    /\ tmdb_to_jf = build_tmdb_mapping(movies)
    /\ jobs = <<>>
    /\ pending = {}
    /\ mapping = <<>>
    /\ collections = <<>>
    /\ IdleMissing
    /\ IdleApply

NextThreads ==
    \/ \E t \in Workers, cid \in CollIds : Take(t, cid)
    \/ \E cid \in CollIds : TakeMain(cid)
    \/ \E t \in 0..MaxWorkers : GetCheck(t)
    \/ \E t \in 0..MaxWorkers : Acquire(t)
    \/ \E t \in 0..MaxWorkers : Stamp(t)
    \/ \E t \in 0..MaxWorkers, code \in PoolCodes, retry_after \in RetryAfters :
          Respond(t, code, retry_after)
    \/ \E t \in 0..MaxWorkers : Wake(t)
    \/ \E t \in 0..MaxWorkers : SetMem(t)
    \/ \E t \in 0..MaxWorkers : SaveOpen(t)
    \/ \E t \in 0..MaxWorkers : SaveDump(t)
    \/ \E t \in 0..MaxWorkers : SaveClose(t)
    \/ PosterWait
    \/ PosterRespond
    \/ Tick

\* The scheduler runs a thread that can run, every remote call returns or
\* times out, and time passes.
SpecThreads == InitThreads /\ [][NextThreads]_vars /\ WF_vars(NextThreads)

InCall(t) == th[t].pc \in {"call", "poster_call"}
InSection(t) == th[t].pc \in {"wait", "call", "sleep429", "poster_wait", "poster_call"}
InSet(t) == th[t].pc \in {"save_open", "save_dump", "save_close"}

\* Every request stays within its attempts, returns None only after the
\* last of them, and tmdb_lock is held by none but a thread inside the
\* 'with' block.
Bounded ==
    /\ \A t \in 0..MaxWorkers :
          /\ th[t].attempt <= attempts
          /\ th[t].ret = "absent" => th[t].attempt = attempts
          /\ th[t].ret = "data" => get_collection(cache, th[t].id) # NoMeta
    /\ tmdb_lock # 0 => th[tmdb_lock].pc \in {"wait", "call", "sleep429"}
    /\ \A t \in 0..MaxWorkers : th[t].pc \in {"wait", "call", "sleep429"} => tmdb_lock = t

\* C23: with every remote call returning or timing out, a _request ends
\* after at most 3 remote attempts and returns None when all of them fail;
\* tmdb_lock is released on every path out of the 'with' block (data, 429,
\* exception); and under fair scheduling every call submitted to the pool
\* completes.
C23_Terminates == []Bounded /\ <>[]PoolDone

\* The pool is done, and a worker has returned None after three attempts of
\* which one met a 429 and one an exception.
C23_Witness ==
    /\ PoolDone
    /\ tmdb_lock = 0
    /\ \E t \in Workers :
          /\ th[t].ret = "absent"
          /\ th[t].attempt = attempts
          /\ th[t].n429 \in 1..(attempts - 1)
    /\ \E c \in DOMAIN futures : futures[c] = "data"

\* C24: a 429 answer does not count against the budget of 3 attempts: a
\* request returns None only after 3 attempts that failed otherwise, so
\* that 429 answers followed by a success return the payload however many
\* 429 answers there were.
C24_429NotCounted ==
    \A t \in 0..MaxWorkers : th[t].ret = "absent" => th[t].attempt - th[t].n429 >= attempts

\* C25: the wait-then-call section is mutually exclusive: at most one thread
\* is inside it and at most one call to TMDb is in flight, the image call of
\* get_poster included, and every call starts CALL_INTERVAL_SECONDS or more
\* after the stamp of the call before it.
C25_OneCallSpaced ==
    /\ Cardinality({t \in 0..MaxWorkers : InSection(t)}) <= 1
    /\ \A t \in 0..MaxWorkers : InCall(t) => th[t].gap >= CALL_INTERVAL_SECONDS

\* A worker's second attempt is in flight while the other worker waits for
\* tmdb_lock; and the image call of get_poster.
C25_Witness ==
    \/ \E t \in Workers, u \in Workers :
          /\ th[t].pc = "call"
          /\ th[t].attempt = 2
          /\ th[u].pc = "acquire"
          /\ _last_call_ts = 0
    \/ /\ th[Main].pc = "poster_call"
       /\ _last_call_ts = 0

\* C26: the cache writes of the workers are serialized: no two threads are
\* inside a cache set (the update of the dict and the save of the file) at
\* once, and when all workers are done the file holds every entry written.
C26_WritesSerialized ==
    /\ Cardinality({t \in 0..MaxWorkers : InSet(t)}) <= 1
    /\ (PoolDone /\ \A t \in Workers : th[t].pc = "idle") => file = cache

\* C27: within one run no missing id is fetched from TMDb more than once,
\* batch_prefetch_missing_tmdb and process_missing taken together, and none
\* is asked of Jellyseerr's movie details more than once, also when the id
\* is missing from several collections or its first fetch failed.
C27_OncePerId ==
    /\ \A m \in DOMAIN titleCalls :
          m \in Range(AllMissingIds(collections)) => titleCalls[m] <= 1
    /\ \A i \in 1..Len(jsCalls.details), j \in 1..Len(jsCalls.details) :
          i # j => jsCalls.details[i] # jsCalls.details[j]

\* C28: process_missing consults the sources of a missing movie in the
\* order cache, TMDb, Jellyseerr, each only when those before it yielded
\* nothing, TMDb only when online with an API key; the movie is counted as
\* 'No metadata' exactly when every source consulted yielded nothing.
C28_SourceOrder ==
    [][(pc = "pm_loop" /\ pm'.k = pm.k + 1) =>
        LET id == Pairs(collections)[pm.k].movie.id
            cached == get_movie(cache, id) # NoMeta
            asksTmdb == titleCalls' # titleCalls
            asksJellyseerr == jsCalls'.details # jsCalls.details
            tmdbYields == asksTmdb /\ lastGet'.value # NoMeta
        IN  /\ asksTmdb <=> (~cached /\ tmdb.api_key /\ ~tmdb.offline_mode)
            /\ asksTmdb => lastGet'.kind = "movie" /\ lastGet'.id = id /\ lastGet'.calls >= 1
            /\ asksJellyseerr <=> (~cached /\ ~tmdbYields /\ pm.client)
            /\ asksJellyseerr => jsCalls'.details = Append(jsCalls.details, id)
            /\ (pm'.skipped_stats["No metadata"] = pm.skipped_stats["No metadata"] + 1)
                  <=> get_movie(cache', id) = NoMeta
            /\ pm'.skipped_stats["No metadata"] \in
                  {pm.skipped_stats["No metadata"], pm.skipped_stats["No metadata"] + 1}]_vars

\* TMDb was asked for a movie and failed, Jellyseerr was asked for it and
\* answered; another movie was left without metadata.
C28_Witness ==
    /\ pm.ret = "full"
    /\ lastGet.kind = "movie"
    /\ lastGet.calls = attempts
    /\ lastGet.value = NoMeta
    /\ Len(jsCalls.details) >= 2
    /\ jsCalls.details[Len(jsCalls.details)] = lastGet.id
    /\ get_movie(cache, lastGet.id) # NoMeta
    /\ pm.skipped_stats["No metadata"] >= 1

\* C29: neither resolver emits a collection with no declared canonical
\* member: every descriptor of the result has a non-empty all_tmdb_ids,
\* online also when the fetch of the collection returns no members.
C29_CanonicalNonEmpty ==
    \A i \in 1..Len(collections) : Len(collections[i].all_tmdb_ids) >= 1

\* C30: outside a dry run apply_collections creates a grouping for a name
\* only when the server has no grouping of exactly that name, so that no
\* sequence of runs leaves two groupings of one name, also when the search
\* by name fails or returns nothing.
C30_NoDuplicateNames ==
    /\ [][Len(server') > Len(server) =>
            \A n \in 1..Len(server) : server[n].Name # server'[Len(server')].Name]_vars
    /\ [](\A m \in 1..Len(server), n \in 1..Len(server) :
             m # n => server[m].Name # server[n].Name)

(***************************************************************************)
(* The outcomes of process_missing.                                        *)
(***************************************************************************)
RECURSIVE SumOver(_, _)
SumOver(f, S) ==
    IF S = {} THEN 0
    ELSE LET x == CHOOSE y \in S : TRUE IN f[x] + SumOver(f, S \ {x})

\* The pairs that were found requested already, and those whose submission
\* failed, as the calls made to Jellyseerr show them.
AlreadyRequested(calls) == Len(calls.check) - Len(calls.request)
SubmissionFailed(p, calls) == IF p.dry_run THEN 0 ELSE Len(calls.request) - p.count

\* What one iteration did, as a set of outcomes.
OutcomesOfStep ==
    {l \in SkipLabels : pm'.skipped_stats[l] = pm.skipped_stats[l] + 1}
    \cup (IF pm'.count = pm.count + 1 THEN {"counted"} ELSE {})
    \cup (IF AlreadyRequested(jsCalls') = AlreadyRequested(jsCalls) + 1
          THEN {"already requested"} ELSE {})
    \cup (IF SubmissionFailed(pm', jsCalls') = SubmissionFailed(pm, jsCalls) + 1
          THEN {"submission failed"} ELSE {})

\* C31: process_missing gives every (collection, missing movie) pair exactly
\* one outcome: one of the five skip reasons, counted, already requested, or
\* submission failed; total_missing is the sum of the skip counters, count,
\* the already-requested and the failed pairs, count never exceeds
\* total_missing, and without a client it returns (0, {}, 0) and touches
\* neither the cache nor TMDb nor Jellyseerr.
C31_OneOutcome ==
    /\ [][(pc = "pm_loop" /\ pm'.k = pm.k + 1) =>
            /\ Cardinality(OutcomesOfStep) = 1
            /\ pm'.total_missing = pm.total_missing + 1
            /\ \A l \in SkipLabels :
                  pm'.skipped_stats[l] \in {pm.skipped_stats[l], pm.skipped_stats[l] + 1}
            /\ pm'.count \in {pm.count, pm.count + 1}]_vars
    /\ [](/\ pm.total_missing =
                SumOver(pm.skipped_stats, SkipLabels) + pm.count
                    + AlreadyRequested(jsCalls) + SubmissionFailed(pm, jsCalls)
          /\ pm.count <= pm.total_missing
          /\ AlreadyRequested(jsCalls) >= 0
          /\ SubmissionFailed(pm, jsCalls) >= 0
          /\ pm.ret = "full" => pm.total_missing = Len(Pairs(collections)))
    /\ [][(pc = "pm_call" /\ ~pm.client) =>
            /\ pm'.ret = "early"
            /\ pm'.count = 0 /\ pm'.total_missing = 0
            /\ UNCHANGED <<cache, lastGet, titleCalls, jsCalls, jsRequested, missing_requests>>]_vars

\* process_missing has returned outside a dry run: of three pairs one was
\* skipped, one was requested already and the submission of one failed.
C31_Witness ==
    /\ pm.ret = "full"
    /\ ~pm.dry_run
    /\ pm.total_missing = 3
    /\ SumOver(pm.skipped_stats, SkipLabels) = 1
    /\ AlreadyRequested(jsCalls) = 1
    /\ SubmissionFailed(pm, jsCalls) = 1
    /\ pm.count = 0

====
